---- MODULE Spec2Model ----
(***************************************************************************)
(* A model of the VoiceReader TTS engine (tts-engine/src/tts_engine):      *)
(* the text chunker, the Job Manager with its per-job workers and          *)
(* subscriber fan-out, the WebSocket stream handler, the warmup            *)
(* controller and the model-activation route.                              *)
(*                                                                         *)
(* The engine runs on one asyncio event loop.  A coroutine runs without    *)
(* interruption from one suspension point to the next, so every action     *)
(* below is the code one task executes between two suspension points.      *)
(* An asyncio.Lock that is free is acquired without suspending; the Job    *)
(* Manager's lock is never held across a suspension point, so it is free   *)
(* whenever a task runs and the code inside it is one step.  The runtime   *)
(* lock of app.py is held across suspension points by activate_model only. *)
(***************************************************************************)
EXTENDS Integers, Sequences, FiniteSets, TLC

(***************************************************************************)
(* Bounds of the model.                                                    *)
(***************************************************************************)
MaxJobs == 2
MaxHandlers == 1
MaxStreamJobs == 1
MaxActivations == 1
MaxWarmups == 2
MaxWarmupTasks == 3
MaxVoices == 2
MaxTextLen == 5
MaxChunkJobs == 1
MaxPruneJobs == 4
OverflowTail == 3

(***************************************************************************)
(* Program constants.                                                      *)
(***************************************************************************)
QUEUE_MAXSIZE == 128
MAX_JOBS_KEPT == 64
FIRST_CHUNK_MAX_CHARS == 200
FIRST_CHUNK_MAX_SENTENCES == 1
SPEAK_MAX_CHARS_DEFAULT == 400

\* Python's None where a job id or a task is expected.
None == 0

(***************************************************************************)
(* chunking.py.  A text is a sequence of one-character strings; offsets    *)
(* are Python's: 0-based and half-open.                                    *)
(***************************************************************************)
WhitespaceChars == {" ", "\n", "\t"}
SENTENCE_BOUNDARY_CHARS == {".", "!", "?", ";", ":", "\n", "U+3002", "U+FF01", "U+FF1F"}

IsSpace(ch) == ch \in WhitespaceChars

Min(a, b) == IF a < b THEN a ELSE b
Max(a, b) == IF a > b THEN a ELSE b

\* text[a:b]
Slice(text, a, b) ==
    IF a >= b THEN <<>> ELSE SubSeq(text, a + 1, IF b > Len(text) THEN Len(text) ELSE b)

RECURSIVE LStrip(_)
LStrip(s) == IF s # <<>> /\ IsSpace(Head(s)) THEN LStrip(Tail(s)) ELSE s

RECURSIVE RStrip(_)
RStrip(s) == IF s # <<>> /\ IsSpace(s[Len(s)]) THEN RStrip(SubSeq(s, 1, Len(s) - 1)) ELSE s

\* str.strip()
Strip(s) == RStrip(LStrip(s))

\* str.find(sub): the lowest index at which sub occurs, -1 when it does not
RECURSIVE FindFrom(_, _, _)
FindFrom(s, sub, i) ==
    IF i + Len(sub) > Len(s) THEN -1
    ELSE IF Slice(s, i, i + Len(sub)) = sub THEN i
    ELSE FindFrom(s, sub, i + 1)

Find(s, sub) == FindFrom(s, sub, 0)

\* text.rfind(" ", lo, hi): the highest index in [lo, hi) holding a space, or -1
RFindSpace(text, lo, hi) ==
    LET found == {i \in lo..(hi - 1) : text[i + 1] = " "}
    IN  IF found = {} THEN -1 ELSE CHOOSE i \in found : \A k \in found : k <= i

RECURSIVE SkipSpace(_, _, _)
SkipSpace(text, cursor, limit) ==
    IF cursor < limit /\ IsSpace(text[cursor + 1])
    THEN SkipSpace(text, cursor + 1, limit)
    ELSE cursor

RECURSIVE AbsorbBoundary(_, _)
AbsorbBoundary(text, end) ==
    IF end < Len(text) /\ text[end + 1] \in SENTENCE_BOUNDARY_CHARS
    THEN AbsorbBoundary(text, end + 1)
    ELSE end

\* The inner loop of _extract_sentence_spans from end: up to and including
\* the first boundary character and the boundary characters that follow it,
\* or to the end of the text.
ScanSentenceEnd(text, end) ==
    LET boundaries == {i \in (end + 1)..Len(text) : text[i] \in SENTENCE_BOUNDARY_CHARS}
    IN  IF boundaries = {} THEN Max(end, Len(text))
        ELSE AbsorbBoundary(text, CHOOSE i \in boundaries : \A k \in boundaries : i <= k)

\* Mutant: a span ends where its raw segment ends.
ExtractSpansBody_raw_end(text, st) ==
    LET cursor == SkipSpace(text, st.cursor, Len(text)) IN
    IF st.cursor >= Len(text) THEN st
    ELSE IF cursor >= Len(text) THEN [st EXCEPT !.cursor = cursor]
    ELSE LET end == ScanSentenceEnd(text, cursor)
             raw_segment == Slice(text, cursor, end)
             trimmed_segment == Strip(raw_segment)
             absolute_start == cursor + Find(raw_segment, trimmed_segment)
         IN  IF trimmed_segment = <<>> THEN [st EXCEPT !.cursor = end]
             ELSE [cursor |-> end, spans |-> Append(st.spans, <<absolute_start, end>>)]

\* One pass of the while loop of _extract_sentence_spans on the loop state
\* st = [cursor, spans]; a pass made once the loop has ended changes nothing.
ExtractSpansBody(text, st) ==
    LET cursor == SkipSpace(text, st.cursor, Len(text)) IN
    IF st.cursor >= Len(text) THEN st
    ELSE IF cursor >= Len(text) THEN [st EXCEPT !.cursor = cursor]
    ELSE LET end == ScanSentenceEnd(text, cursor)
             raw_segment == Slice(text, cursor, end)
             trimmed_segment == Strip(raw_segment)
             absolute_start == cursor + Find(raw_segment, trimmed_segment)
         IN  IF trimmed_segment = <<>> THEN [st EXCEPT !.cursor = end]
             ELSE [cursor |-> end,
                   spans |-> Append(st.spans,
                                    <<absolute_start, absolute_start + Len(trimmed_segment)>>)]

\* n passes of the loop: the first half of them, then the second half from
\* the state the first half ends in (the singleton binds that state's value).
RECURSIVE ExtractSpansLoop(_, _, _)
ExtractSpansLoop(text, st, n) ==
    IF n <= 0 THEN st
    ELSE IF n = 1 THEN ExtractSpansBody(text, st)
    ELSE CHOOSE last \in {ExtractSpansLoop(text, mid, n - (n \div 2)) :
                              mid \in {ExtractSpansLoop(text, st, n \div 2)}} : TRUE

\* Every pass moves the cursor forward, so the loop ends within Len(text) passes.
extract_sentence_spans(text) ==
    ExtractSpansLoop(text, [cursor |-> 0, spans |-> <<>>], Len(text)).spans

\* Mutant: the next piece starts one character after the cut.
SplitSpanBody_skips_cut_char(text, st, end, max_chars) ==
    LET cursor == SkipSpace(text, st.cursor, end) IN
    IF st.cursor >= end THEN st
    ELSE IF cursor >= end THEN [st EXCEPT !.cursor = cursor]
    ELSE LET hard_end == Min(cursor + max_chars, end)
             split_at == RFindSpace(text, cursor, hard_end)
             piece_end == IF hard_end < end /\ split_at > cursor THEN split_at ELSE hard_end
             raw_piece == Slice(text, cursor, piece_end)
             trimmed_piece == Strip(raw_piece)
             absolute_start == cursor + Find(raw_piece, trimmed_piece)
         IN  IF trimmed_piece = <<>> THEN [st EXCEPT !.cursor = piece_end]
             ELSE [cursor |-> piece_end + 1,
                   pieces |-> Append(st.pieces,
                       [text |-> trimmed_piece, start_char |-> absolute_start,
                        end_char |-> absolute_start + Len(trimmed_piece)])]

\* One pass of the while loop of _split_span_by_chars on st = [cursor, pieces].
SplitSpanBody(text, st, end, max_chars) ==
    LET cursor == SkipSpace(text, st.cursor, end) IN
    IF st.cursor >= end THEN st
    ELSE IF cursor >= end THEN [st EXCEPT !.cursor = cursor]
    ELSE LET hard_end == Min(cursor + max_chars, end)
             split_at == RFindSpace(text, cursor, hard_end)
             piece_end == IF hard_end < end /\ split_at > cursor THEN split_at ELSE hard_end
             raw_piece == Slice(text, cursor, piece_end)
             trimmed_piece == Strip(raw_piece)
             absolute_start == cursor + Find(raw_piece, trimmed_piece)
         IN  IF trimmed_piece = <<>> THEN [st EXCEPT !.cursor = piece_end]
             ELSE [cursor |-> piece_end,
                   pieces |-> Append(st.pieces,
                       [text |-> trimmed_piece, start_char |-> absolute_start,
                        end_char |-> absolute_start + Len(trimmed_piece)])]

RECURSIVE SplitSpanLoop(_, _, _, _, _)
SplitSpanLoop(text, st, end, max_chars, n) ==
    IF n <= 0 THEN st
    ELSE IF n = 1 THEN SplitSpanBody(text, st, end, max_chars)
    ELSE CHOOSE last \in {SplitSpanLoop(text, mid, end, max_chars, n - (n \div 2)) :
                              mid \in {SplitSpanLoop(text, st, end, max_chars, n \div 2)}} :
                    TRUE

\* Every pass moves the cursor forward, so the loop ends within end - start passes.
split_span_by_chars(text, start, end, max_chars) ==
    SplitSpanLoop(text, [cursor |-> start, pieces |-> <<>>], end, max_chars,
                  end - start).pieces

RECURSIVE JoinWithSpace(_)
JoinWithSpace(parts) ==
    IF parts = <<>> THEN <<>>
    ELSE IF Len(parts) = 1 THEN parts[1]
    ELSE parts[1] \o <<" ">> \o JoinWithSpace(Tail(parts))

\* The loop state of split_text_into_chunks: the chunks so far and the group
\* being built.  grouped_start = -1 stands for None.
EmptyGroup(chunks) ==
    [chunks |-> chunks, parts |-> <<>>, grouped_start |-> -1, grouped_end |-> 0,
     grouped_chars |-> 0, grouped_sentences |-> 0]

flush_group(st) ==
    IF st.grouped_start = -1 \/ st.parts = <<>> THEN EmptyGroup(st.chunks)
    ELSE EmptyGroup(Append(st.chunks,
            [chunk_index |-> Len(st.chunks), text |-> JoinWithSpace(st.parts),
             start_char |-> st.grouped_start, end_char |-> st.grouped_end]))

\* Mutant: the pieces of a hard split are numbered from 0.
AppendPieces_numbered_from_zero(chunks, pieces) ==
    chunks \o [i \in 1..Len(pieces) |->
                 [chunk_index |-> i - 1, text |-> pieces[i].text,
                  start_char |-> pieces[i].start_char, end_char |-> pieces[i].end_char]]

\* The loop that appends the pieces of a hard split: each piece takes the
\* length of chunks at the time as its chunk_index.
AppendPieces(chunks, pieces) ==
    chunks \o [i \in 1..Len(pieces) |->
                 [chunk_index |-> Len(chunks) + i - 1, text |-> pieces[i].text,
                  start_char |-> pieces[i].start_char, end_char |-> pieces[i].end_char]]

\* One iteration of the loop over sentence_spans (chunking.py 65-109).
ChunkLoopBody(text, st, span, max_chars, max_sentences_per_chunk) ==
    LET span_start == span[1]
        span_end == span[2]
        sentence_text == Strip(Slice(text, span_start, span_end))
        building_first_chunk == Len(st.chunks) = 0
        sentence_limit0 == IF building_first_chunk
                           THEN Min(max_sentences_per_chunk, FIRST_CHUNK_MAX_SENTENCES)
                           ELSE max_sentences_per_chunk
        active_sentence_limit == IF sentence_limit0 < 1 THEN 1 ELSE sentence_limit0
        char_limit0 == IF building_first_chunk THEN Min(max_chars, FIRST_CHUNK_MAX_CHARS)
                       ELSE max_chars
        active_char_limit == IF char_limit0 < 100 THEN Max(1, char_limit0) ELSE char_limit0
        sentence_len == Len(sentence_text)
        projected_chars == IF st.grouped_chars = 0 THEN sentence_len
                           ELSE st.grouped_chars + 1 + sentence_len
        st1 == IF st.grouped_sentences >= active_sentence_limit
                  \/ (st.grouped_sentences > 0 /\ projected_chars > active_char_limit)
               THEN flush_group(st) ELSE st
    IN  IF sentence_text = <<>> THEN st
        ELSE IF sentence_len > active_char_limit
        THEN EmptyGroup(AppendPieces(flush_group(st).chunks,
                 split_span_by_chars(text, span_start, span_end, active_char_limit)))
        ELSE [chunks |-> st1.chunks,
              parts |-> Append(st1.parts, sentence_text),
              grouped_start |-> IF st1.grouped_start = -1 THEN span_start
                                ELSE st1.grouped_start,
              grouped_end |-> span_end,
              grouped_chars |-> IF st1.grouped_chars > 0 THEN projected_chars
                                ELSE sentence_len,
              grouped_sentences |-> st1.grouped_sentences + 1]

\* The loop over sentence_spans[lo..hi]: the first half, then the second half
\* from the state the first half ends in.
RECURSIVE ChunkLoop(_, _, _, _, _, _, _)
ChunkLoop(text, st, spans, lo, hi, max_chars, max_sentences_per_chunk) ==
    IF lo > hi THEN st
    ELSE IF lo = hi
    THEN ChunkLoopBody(text, st, spans[lo], max_chars, max_sentences_per_chunk)
    ELSE LET mid == (lo + hi) \div 2 IN
         CHOOSE last \in
             {ChunkLoop(text, st1, spans, mid + 1, hi, max_chars, max_sentences_per_chunk) :
                  st1 \in {ChunkLoop(text, st, spans, lo, mid, max_chars,
                                     max_sentences_per_chunk)}} : TRUE

\* Mutant: max_sentences_per_chunk is used as given.
split_text_into_chunks3_sentences_uncapped(text, max_chars, max_sentences_per_chunk) ==
    LET sentence_spans == extract_sentence_spans(text) IN
    flush_group(ChunkLoop(text, EmptyGroup(<<>>), sentence_spans, 1, Len(sentence_spans),
                          Min(max_chars, FIRST_CHUNK_MAX_CHARS),
                          max_sentences_per_chunk)).chunks

\* split_text_into_chunks for max_chars >= 1 and max_sentences_per_chunk >= 1
\* (smaller values raise ValueError).
split_text_into_chunks3(text, max_chars, max_sentences_per_chunk) ==
    LET sentence_spans == extract_sentence_spans(text) IN
    flush_group(ChunkLoop(text, EmptyGroup(<<>>), sentence_spans, 1, Len(sentence_spans),
                          Min(max_chars, FIRST_CHUNK_MAX_CHARS),
                          Min(max_sentences_per_chunk, FIRST_CHUNK_MAX_SENTENCES))).chunks

split_text_into_chunks(text, max_chars) == split_text_into_chunks3(text, max_chars, 1)


(***************************************************************************)
(* auth.py.  A header value is a sequence of one-character strings; the    *)
(* empty sequence stands for a header that is absent, and for the None     *)
(* that _parse_bearer_token returns.                                       *)
(***************************************************************************)
\* constants.py
WS_AUTH_SUBPROTOCOL ==
    <<"a", "u", "t", "h", ".", "b", "e", "a", "r", "e", "r", ".", "v", "1">>

LowerOf == [ch \in {"B", "E", "A", "R", "S", "I", "C"} |->
               CASE ch = "B" -> "b" [] ch = "E" -> "e" [] ch = "A" -> "a"
                 [] ch = "R" -> "r" [] ch = "S" -> "s" [] ch = "I" -> "i"
                 [] ch = "C" -> "c"]

\* str.lower()
Lower(s) == [i \in 1..Len(s) |-> IF s[i] \in DOMAIN LowerOf THEN LowerOf[s[i]] ELSE s[i]]

\* str.split(sep, 1), sep one character
SplitOnce(s, sep) ==
    LET at == Find(s, <<sep>>) IN
    IF at < 0 THEN <<s>> ELSE <<Slice(s, 0, at), Slice(s, at + 1, Len(s))>>

\* str.split(sep), sep one character
RECURSIVE Split(_, _)
Split(s, sep) ==
    LET at == Find(s, <<sep>>) IN
    IF at < 0 THEN <<s>>
    ELSE <<Slice(s, 0, at)>> \o Split(Slice(s, at + 1, Len(s)), sep)

parse_bearer_token(raw_header) ==
    IF raw_header = <<>> THEN <<>>
    ELSE LET parts == SplitOnce(Strip(raw_header), " ") IN
         IF Len(parts) # 2 THEN <<>>
         ELSE IF Lower(parts[1]) # <<"b", "e", "a", "r", "e", "r">> THEN <<>>
         ELSE Strip(parts[2])

RECURSIVE StripNonEmpty(_)
StripNonEmpty(segments) ==
    IF segments = <<>> THEN <<>>
    ELSE IF Strip(Head(segments)) # <<>>
    THEN <<Strip(Head(segments))>> \o StripNonEmpty(Tail(segments))
    ELSE StripNonEmpty(Tail(segments))

split_subprotocol_header(raw_header) ==
    IF raw_header = <<>> THEN <<>> ELSE StripNonEmpty(Split(raw_header, ","))

\* Mutant: any bearer token passes.
verify_http_request_any_token(authorization, expected_token) ==
    parse_bearer_token(authorization) # <<>>

\* TRUE when verify_http_request returns, FALSE when it raises 401.
verify_http_request(authorization, expected_token) ==
    parse_bearer_token(authorization) = expected_token

\* Mutant: the token may stand anywhere after auth.bearer.v1.
verify_websocket_pair_apart(authorization, sec_websocket_protocol, expected_token) ==
    IF parse_bearer_token(authorization) = expected_token
    THEN [authorized |-> TRUE, subprotocol |-> <<>>]
    ELSE LET offered == split_subprotocol_header(sec_websocket_protocol) IN
         IF \E index \in 1..Len(offered), other \in 1..Len(offered) :
                /\ index < other
                /\ offered[index] = WS_AUTH_SUBPROTOCOL
                /\ offered[other] = expected_token
         THEN [authorized |-> TRUE, subprotocol |-> WS_AUTH_SUBPROTOCOL]
         ELSE [authorized |-> FALSE, subprotocol |-> <<>>]

\* The empty sequence stands for no negotiated subprotocol.
verify_websocket(authorization, sec_websocket_protocol, expected_token) ==
    IF parse_bearer_token(authorization) = expected_token
    THEN [authorized |-> TRUE, subprotocol |-> <<>>]
    ELSE LET offered == split_subprotocol_header(sec_websocket_protocol) IN
         IF \E index \in 1..(Len(offered) - 1) :
                offered[index] = WS_AUTH_SUBPROTOCOL /\ offered[index + 1] = expected_token
         THEN [authorized |-> TRUE, subprotocol |-> WS_AUTH_SUBPROTOCOL]
         ELSE [authorized |-> FALSE, subprotocol |-> <<>>]

(***************************************************************************)
(* State.                                                                  *)
(***************************************************************************)
JobIds == 1..MaxJobs
HandlerIds == 1..MaxHandlers
Generations == 0..MaxActivations

(***************************************************************************)
(* voices.py: VoiceStore.  The voices directory of the data directory is   *)
(* a function from the UUID texts to what lies under voices/<uuid>; every  *)
(* VoiceStore the program builds is given the same data directory.  A      *)
(* display name or a transcript is a sequence of characters; an optional   *)
(* one is <<>> for None and <<value>> otherwise; another absent string is  *)
(* "None".                                                                 *)
(***************************************************************************)
DEFAULT_VOICE_ID == "0"

UuidTexts == <<"u1", "u2", "u3">>
VoiceUuids == {UuidTexts[n] : n \in 1..MaxVoices}

\* A UTC datetime: whole seconds since 1970 and the microseconds.
Epoch == [second |-> 0, microsecond |-> 0]

\* datetime.isoformat(): the fraction is left out when it is zero.
isoformat(dt) ==
    IF dt.microsecond = 0 THEN <<dt.second>> ELSE <<dt.second, dt.microsecond>>

\* The datetime pydantic reads from an ISO text.
parse_datetime(text) ==
    [second |-> text[1], microsecond |-> IF Len(text) = 1 THEN 0 ELSE text[2]]

Earlier(a, b) ==
    \/ a.second < b.second
    \/ a.second = b.second /\ a.microsecond < b.microsecond

\* Nothing under voices/<uuid>.
NoVoiceDir == [exists |-> FALSE, meta |-> <<>>, reference_audio |-> FALSE, prompt |-> FALSE]

\* VoiceSummary.model_validate of the payload of a meta.json: ref_text is not
\* a field of VoiceSummary.
model_validate(payload) ==
    [voice_id |-> payload.voice_id, display_name |-> payload.display_name,
     created_at |-> parse_datetime(payload.created_at),
     tts_model_id |-> payload.tts_model_id, language_hint |-> payload.language_hint,
     description |-> payload.description]

default_voice_summary(store) ==
    [voice_id |-> DEFAULT_VOICE_ID, display_name |-> <<"Default Built-in Voice">>,
     created_at |-> Epoch, tts_model_id |-> store.model_id, language_hint |-> "auto",
     description |-> "None"]

\* The loop of list_voices over sorted(iterdir()), up to the n-th directory.
RECURSIVE ReadVoices(_, _)
ReadVoices(dir, n) ==
    IF n = 0 THEN <<>>
    ELSE LET voice_dir == dir[UuidTexts[n]] IN
         ReadVoices(dir, n - 1) \o
             (IF voice_dir.exists /\ voice_dir.meta # <<>>
              THEN <<model_validate(voice_dir.meta[1])>> ELSE <<>>)

\* list.sort(key=created_at) is stable: a voice goes behind every voice that
\* is not later than it.
InsertByCreatedAt(sorted, voice) ==
    LET k == Cardinality({i \in 1..Len(sorted) :
                             ~Earlier(voice.created_at, sorted[i].created_at)})
    IN  SubSeq(sorted, 1, k) \o <<voice>> \o SubSeq(sorted, k + 1, Len(sorted))

RECURSIVE SortByCreatedAt(_)
SortByCreatedAt(voices) ==
    IF voices = <<>> THEN <<>>
    ELSE InsertByCreatedAt(SortByCreatedAt(SubSeq(voices, 1, Len(voices) - 1)),
                           voices[Len(voices)])

\* Mutant: the default voice is put behind the stored voices.
list_voices_default_last(store, dir) ==
    ReadVoices(dir, MaxVoices) \o <<default_voice_summary(store)>>

list_voices(store, dir) ==
    SortByCreatedAt(<<default_voice_summary(store)>> \o ReadVoices(dir, MaxVoices))

voice_exists(dir, voice_id) ==
    \/ voice_id = DEFAULT_VOICE_ID
    \/ dir[voice_id].exists /\ dir[voice_id].meta # <<>>

\* create_voice with voice_id the uuid4 and created_at the clock's reading:
\* the directory after it and the VoiceSummary returned.
create_voice(store, dir, voice_id, created_at, display_name, language_hint, ref_text, description) ==
    LET meta == [voice_id |-> voice_id, display_name |-> display_name,
                 created_at |-> isoformat(created_at),
                 tts_model_id |-> store.model_id, language_hint |-> language_hint,
                 description |-> description, ref_text |-> ref_text]
    IN  [dir |-> [dir EXCEPT ![voice_id] = [NoVoiceDir EXCEPT !.exists = TRUE,
                                                             !.meta = <<meta>>]],
         voice |-> model_validate(meta)]

\* Mutant: a display name that is named is stored even when it is null, and a
\* language that is not named is written as well.
update_voice_writes_unnamed(dir, voice_id, display_name, language_hint, description, fields_to_update) ==
    IF ~(dir[voice_id].exists /\ dir[voice_id].meta # <<>>)
    THEN [dir |-> dir, updated |-> <<>>]
    ELSE LET payload == dir[voice_id].meta[1]
             payload3 == [payload EXCEPT !.language_hint = language_hint,
                                         !.description = IF "description" \in fields_to_update
                                                         THEN description ELSE @]
         IN  [dir |-> [dir EXCEPT ![voice_id].meta = <<payload3>>],
              updated |-> <<model_validate(payload3)>>]

\* update_voice: the directory after it and the VoiceSummary returned, <<>>
\* for None.
update_voice(dir, voice_id, display_name, language_hint, description, fields_to_update) ==
    IF ~(dir[voice_id].exists /\ dir[voice_id].meta # <<>>)
    THEN [dir |-> dir, updated |-> <<>>]
    ELSE LET payload == dir[voice_id].meta[1]
             payload1 == IF "display_name" \in fields_to_update /\ display_name # <<>>
                         THEN [payload EXCEPT !.display_name = display_name[1]]
                         ELSE payload
             payload2 == IF "language" \in fields_to_update
                         THEN [payload1 EXCEPT !.language_hint = language_hint]
                         ELSE payload1
             payload3 == IF "description" \in fields_to_update
                         THEN [payload2 EXCEPT !.description = description]
                         ELSE payload2
             voice == model_validate(payload3)
             written == [payload3 EXCEPT !.voice_id = voice.voice_id,
                                         !.display_name = voice.display_name,
                                         !.created_at = isoformat(voice.created_at),
                                         !.tts_model_id = voice.tts_model_id,
                                         !.language_hint = voice.language_hint,
                                         !.description = voice.description]
         IN  [dir |-> [dir EXCEPT ![voice_id].meta = <<written>>],
              updated |-> <<voice>>]

\* Mutant: the rollback of a failed clone leaves the directory in place.
delete_voice_keeps_directory(dir, voice_id) ==
    [dir |-> dir, deleted |-> dir[voice_id].exists]

\* delete_voice: shutil.rmtree of the voice's directory.
delete_voice(dir, voice_id) ==
    IF ~dir[voice_id].exists
    THEN [dir |-> dir, deleted |-> FALSE]
    ELSE [dir |-> [dir EXCEPT ![voice_id] = NoVoiceDir], deleted |-> TRUE]


VARIABLES
    job,                \* job id -> JobState and the locals of its _run_job task
    mgr_jobs,           \* JobManager._jobs of the manager built by each activation
    mgr_active_job_id,  \* JobManager._active_job_id of each manager
    jobs,               \* app.py's jobs: the current JobManager (by activation)
    queue,              \* the asyncio.Queue of each stream handler
    handler,            \* stream_job tasks
    engine_config,      \* create_app's engine_config
    synthesizer,        \* create_app's synthesizer
    voice_store,        \* create_app's voice_store
    runtime_model_id,   \* create_app's runtime_model_id
    app_state,          \* app.state
    warmup_state,       \* the warmup state dicts, by the activation that made them
    warmup_tasks,       \* the _run_warmup tasks
    runtime_lock,       \* TRUE while activate_model holds runtime_lock
    act,                \* the activate_model request
    warm,               \* the POST /v1/warmup request
    behind,             \* warmup task -> the callbacks queued ahead of its steps
    voices_dir,         \* the voices directory: UUID text -> what lies under it
    uuids,              \* the UUID texts uuid4 has returned to create_voice
    clone,              \* the POST /v1/voices/clone request
    http                \* the last request the /v1 router has dispatched

jobVars == <<job, mgr_jobs, mgr_active_job_id>>
streamVars == <<queue, handler>>
runtimeVars == <<engine_config, synthesizer, voice_store, runtime_model_id, app_state>>
warmupVars == <<warmup_state, warmup_tasks>>
activateVars == <<runtime_lock, act>>
requestVars == <<warm, behind>>
voiceVars == <<voices_dir, uuids, clone>>
appVars == <<runtimeVars, warmupVars, activateVars, requestVars, voiceVars>>
\* Everything but the router's record of the last request.
served == <<job, mgr_jobs, mgr_active_job_id, jobs, queue, handler, appVars>>
vars == <<served, http>>

TERMINAL_EVENT_TYPES == {"JOB_DONE", "JOB_CANCELED", "JOB_ERROR"}

\* The sentinel put on a queue after a terminal event (Python's None).
Sentinel == [type |-> "None"]

Event(type, j) == [type |-> type, job_id |-> j]

AudioChunkEvent(j, sequence, chunk) ==
    [type |-> "AUDIO_CHUNK", job_id |-> j, seq |-> sequence,
     text_range |-> [chunk_index |-> chunk.chunk_index,
                     start_char |-> chunk.start_char,
                     end_char |-> chunk.end_char]]

ErrorEvent(j) == [type |-> "JOB_ERROR", job_id |-> j, code |-> "INFERENCE_FAILED"]

\* A slot of the job table that start_job has not filled yet.
NoJob ==
    [pc |-> "none", manager |-> 0, voice_id |-> "None", text |-> <<>>, max_chars |-> 0,
     cancel_event |-> FALSE, done_event |-> FALSE, history |-> <<>>,
     subscribers |-> {}, chunks |-> <<>>, idx |-> 0, sequence |-> 0]

\* JobState(...) with its task created and not yet run.
NewJob(g, voice_id, text, max_chars) ==
    [pc |-> "created", manager |-> g, voice_id |-> voice_id, text |-> text,
     max_chars |-> max_chars,
     cancel_event |-> FALSE, done_event |-> FALSE, history |-> <<>>,
     subscribers |-> {}, chunks |-> <<>>, idx |-> 0, sequence |-> 0]

\* A stream_job task: the headers of its connection, the subprotocol it was
\* accepted with, its locals, the frames it sent and its close code.
IdleHandler ==
    [pc |-> "idle", job_id |-> None, history |-> <<>>, pos |-> 0, sent |-> <<>>,
     close_code |-> 0, authorization |-> <<>>, sec_websocket_protocol |-> <<>>,
     accepted |-> FALSE, subprotocol |-> <<>>]

\* The part of the state the Job Manager's code works on.
World == [job |-> job, queue |-> queue, active |-> mgr_active_job_id]

Commit(w) ==
    /\ job' = w.job
    /\ queue' = w.queue
    /\ mgr_active_job_id' = w.active

(***************************************************************************)
(* jobs.py: JobManager.                                                    *)
(***************************************************************************)
has_terminal_event(jb) ==
    /\ jb.history # <<>>
    /\ jb.history[Len(jb.history)].type \in TERMINAL_EVENT_TYPES

\* Mutant: the event is appended to the history and put on no queue.
publish_history_only(w, j, event, terminal) ==
    [w EXCEPT !.job[j].history = Append(@, event)]

\* Mutant: a subscriber whose queue is full stays subscribed.
publish_keeps_full_subscribers(w, j, event, terminal) ==
    LET subs == w.job[j].subscribers
        kept == {q \in subs : Len(w.queue[q]) < QUEUE_MAXSIZE}
        q1 == [q \in DOMAIN w.queue |->
                 IF q \in kept THEN Append(w.queue[q], event) ELSE w.queue[q]]
        q2 == [q \in DOMAIN w.queue |->
                 IF terminal /\ q \in kept /\ Len(q1[q]) < QUEUE_MAXSIZE
                 THEN Append(q1[q], Sentinel) ELSE q1[q]]
    IN  [w EXCEPT !.job[j].history = Append(@, event), !.queue = q2]

\* Mutant: a terminal event goes to the history only; the queues get the
\* sentinel without it.
publish_terminal_sentinel_only(w, j, event, terminal) ==
    LET subs == w.job[j].subscribers
        stale_queues == {q \in subs : Len(w.queue[q]) >= QUEUE_MAXSIZE}
        kept == subs \ stale_queues
        q1 == [q \in DOMAIN w.queue |->
                 IF q \in kept
                 THEN Append(w.queue[q], IF terminal THEN Sentinel ELSE event)
                 ELSE w.queue[q]]
    IN  [w EXCEPT !.job[j].history = Append(@, event),
                  !.job[j].subscribers = kept,
                  !.queue = q1]

\* The coroutines of JobManager whose body runs inside `async with
\* self._lock`; none of them awaits anything while it holds the lock.
JobManagerLockSections ==
    {"start_job", "cancel_job", "subscribe", "unsubscribe", "has_active_job",
     "_run_job.finally"}

\* Mutant: a publish empties the subscriber set.
publish_drops_every_subscriber(w, j, event, terminal) ==
    LET subs == w.job[j].subscribers
        q1 == [q \in DOMAIN w.queue |->
                 IF q \in subs /\ Len(w.queue[q]) < QUEUE_MAXSIZE
                 THEN Append(w.queue[q], event) ELSE w.queue[q]]
    IN  [w EXCEPT !.job[j].history = Append(@, event),
                  !.job[j].subscribers = {},
                  !.queue = q1]

\* _publish: append to history, put_nowait on every subscriber queue and drop
\* the subscribers whose queue is full; after a terminal event, the sentinel.
publish(w, j, event, terminal) ==
    LET subs == w.job[j].subscribers
        stale_queues == {q \in subs : Len(w.queue[q]) >= QUEUE_MAXSIZE}
        kept == subs \ stale_queues
        q1 == [q \in DOMAIN w.queue |->
                 IF q \in kept THEN Append(w.queue[q], event) ELSE w.queue[q]]
        full_again == IF terminal THEN {q \in kept : Len(q1[q]) >= QUEUE_MAXSIZE} ELSE {}
        q2 == [q \in DOMAIN w.queue |->
                 IF terminal /\ q \in kept \ full_again
                 THEN Append(q1[q], Sentinel) ELSE q1[q]]
    IN  [w EXCEPT !.job[j].history = Append(@, event),
                  !.job[j].subscribers = kept \ full_again,
                  !.queue = q2]

\* Mutant: the finally block clears the active job id whatever it designates.
run_job_finally_clears_any(w, j, pc) ==
    LET g == w.job[j].manager IN
    [w EXCEPT !.job[j].done_event = TRUE,
              !.job[j].pc = pc,
              !.active[g] = None]

\* The finally block of _run_job.
run_job_finally(w, j, pc) ==
    LET g == w.job[j].manager IN
    [w EXCEPT !.job[j].done_event = TRUE,
              !.job[j].pc = pc,
              !.active[g] = IF @ = j THEN None ELSE @]

\* Mutant: after a terminal event the worker ends without its finally block.
publish_terminal_skips_finally(w, j, event) ==
    [publish(w, j, event, TRUE) EXCEPT !.job[j].pc = "finished"]

publish_terminal(w, j, event) == run_job_finally(publish(w, j, event, TRUE), j, "finished")

\* Mutant: the code after the loop publishes JOB_DONE without looking at the
\* cancel signal.
run_job_next_chunk_done_unchecked(w, j) ==
    LET jb == w.job[j] IN
    IF jb.idx < Len(jb.chunks)
    THEN IF jb.cancel_event
         THEN publish_terminal(w, j, Event("JOB_CANCELED", j))
         ELSE [w EXCEPT !.job[j].pc = "synth"]
    ELSE publish_terminal(w, j, Event("JOB_DONE", j))

\* The head of the loop over chunks, and the code after the loop.
run_job_next_chunk(w, j) ==
    LET jb == w.job[j] IN
    IF jb.idx < Len(jb.chunks)
    THEN IF jb.cancel_event
         THEN publish_terminal(w, j, Event("JOB_CANCELED", j))
         ELSE [w EXCEPT !.job[j].pc = "synth"]
    ELSE IF jb.cancel_event
         THEN publish_terminal(w, j, Event("JOB_CANCELED", j))
         ELSE publish_terminal(w, j, Event("JOB_DONE", j))

\* _run_job from its start to the first to_thread.
run_job_start(w, j) ==
    LET w1 == publish(w, j, Event("JOB_STARTED", j), FALSE)
        w2 == [w1 EXCEPT !.job[j].chunks =
                              split_text_into_chunks(w.job[j].text, w.job[j].max_chars),
                         !.job[j].idx = 0,
                         !.job[j].sequence = 1]
    IN  run_job_next_chunk(w2, j)

\* Mutant: the sequence number is not advanced after a publish.
run_job_after_synth_same_seq(w, j, outcome) ==
    LET jb == w.job[j] IN
    IF outcome = "synth_raises" THEN publish_terminal(w, j, ErrorEvent(j))
    ELSE IF jb.cancel_event THEN publish_terminal(w, j, Event("JOB_CANCELED", j))
    ELSE IF outcome = "post_raises" THEN publish_terminal(w, j, ErrorEvent(j))
    ELSE LET w1 == publish(w, j, AudioChunkEvent(j, jb.sequence, jb.chunks[jb.idx + 1]),
                           FALSE)
         IN  [w1 EXCEPT !.job[j].pc = "sleep"]

\* Mutant: cancellation is not checked again once synthesize_chunk returned.
run_job_after_synth_no_recheck(w, j, outcome) ==
    LET jb == w.job[j] IN
    IF outcome # "ok" THEN publish_terminal(w, j, ErrorEvent(j))
    ELSE LET w1 == publish(w, j, AudioChunkEvent(j, jb.sequence, jb.chunks[jb.idx + 1]),
                           FALSE)
         IN  [w1 EXCEPT !.job[j].sequence = @ + 1, !.job[j].pc = "sleep"]

\* Mutant: an exception of _apply_playback_controls is swallowed and the
\* chunk is published as it came from the synthesizer.
run_job_after_synth_swallows_post(w, j, outcome) ==
    LET jb == w.job[j] IN
    IF outcome = "synth_raises" THEN publish_terminal(w, j, ErrorEvent(j))
    ELSE IF jb.cancel_event THEN publish_terminal(w, j, Event("JOB_CANCELED", j))
    ELSE LET w1 == publish(w, j, AudioChunkEvent(j, jb.sequence, jb.chunks[jb.idx + 1]),
                           FALSE)
         IN  [w1 EXCEPT !.job[j].sequence = @ + 1, !.job[j].pc = "sleep"]

\* _run_job from the return of to_thread to sleep(0).  outcome says whether
\* synthesize_chunk or _apply_playback_controls raised.
run_job_after_synth(w, j, outcome) ==
    LET jb == w.job[j] IN
    IF outcome = "synth_raises" THEN publish_terminal(w, j, ErrorEvent(j))
    ELSE IF jb.cancel_event THEN publish_terminal(w, j, Event("JOB_CANCELED", j))
    ELSE IF outcome = "post_raises" THEN publish_terminal(w, j, ErrorEvent(j))
    ELSE IF jb.cancel_event THEN publish_terminal(w, j, Event("JOB_CANCELED", j))
    ELSE LET w1 == publish(w, j, AudioChunkEvent(j, jb.sequence, jb.chunks[jb.idx + 1]),
                           FALSE)
         IN  [w1 EXCEPT !.job[j].sequence = @ + 1, !.job[j].pc = "sleep"]

\* Mutant: the loop steps over every other chunk.
run_job_after_sleep_skips_chunk(w, j) ==
    run_job_next_chunk([w EXCEPT !.job[j].idx = @ + 2], j)

\* _run_job from the return of sleep(0).
run_job_after_sleep(w, j) ==
    run_job_next_chunk([w EXCEPT !.job[j].idx = @ + 1], j)

\* Mutant: the CancelledError handler publishes nothing.
run_job_cancelled_silent(w, j) == run_job_finally(w, j, "aborted")

\* asyncio.CancelledError thrown into _run_job at a suspension point.
run_job_cancelled(w, j) ==
    LET w1 == IF has_terminal_event(w.job[j]) THEN w
              ELSE publish(w, j, Event("JOB_CANCELED", j), TRUE)
    IN  run_job_finally(w1, j, "aborted")

RECURSIVE SortedSeq(_)
SortedSeq(S) ==
    IF S = {} THEN <<>>
    ELSE LET m == CHOOSE x \in S : \A y \in S : x <= y
         IN  <<m>> \o SortedSeq(S \ {m})

\* _prune_finished_jobs_locked.  Job ids are given out in creation order, so
\* sorting by id is sorting by created_at.
RECURSIVE PruneLoop(_, _, _)
PruneLoop(map, finished_jobs, max_jobs) ==
    IF finished_jobs = <<>> \/ Cardinality(map) <= max_jobs THEN map
    ELSE PruneLoop(map \ {Head(finished_jobs)}, Tail(finished_jobs), max_jobs)

\* Mutant: the oldest jobs are removed whether or not they are done.
prune_oldest_jobs(map, jobtab, max_jobs) ==
    IF Cardinality(map) <= max_jobs THEN map
    ELSE PruneLoop(map, SortedSeq(map), max_jobs)

prune_finished_jobs_locked(map, jobtab, max_jobs) ==
    IF Cardinality(map) <= max_jobs THEN map
    ELSE PruneLoop(map, SortedSeq({j \in map : jobtab[j].done_event}), max_jobs)

FreeJobIds == {j \in DOMAIN job : job[j].pc = "none"}

\* Mutant: start_job leaves the prior active job alone.
start_job_no_cancel(g, j, voice_id, text, max_chars) ==
    LET job2 == [job EXCEPT ![j] = NewJob(g, voice_id, text, max_chars)]
    IN  /\ job' = job2
        /\ mgr_active_job_id' = [mgr_active_job_id EXCEPT ![g] = j]
        /\ mgr_jobs' = [mgr_jobs EXCEPT ![g] =
                           prune_finished_jobs_locked(@ \cup {j}, job2, MAX_JOBS_KEPT)]

\* start_job in manager g; j is the fresh uuid4.
start_job(g, j, voice_id, text, max_chars) ==
    LET a == mgr_active_job_id[g]
        cancel_prior == a # None /\ a \in mgr_jobs[g] /\ ~job[a].done_event
        job1 == IF cancel_prior THEN [job EXCEPT ![a].cancel_event = TRUE] ELSE job
        job2 == [job1 EXCEPT ![j] = NewJob(g, voice_id, text, max_chars)]
    IN  /\ job' = job2
        /\ mgr_active_job_id' = [mgr_active_job_id EXCEPT ![g] = j]
        /\ mgr_jobs' = [mgr_jobs EXCEPT ![g] =
                           prune_finished_jobs_locked(@ \cup {j}, job2, MAX_JOBS_KEPT)]

\* cancel_job in manager g: TRUE when the job is known.
cancel_job_known(g, job_id) == job_id \in mgr_jobs[g]

\* has_active_job of manager g.
has_active_job(g) ==
    /\ mgr_active_job_id[g] # None
    /\ mgr_active_job_id[g] \in mgr_jobs[g]
    /\ ~job[mgr_active_job_id[g]].done_event

(***************************************************************************)
(* Job worker tasks.                                                       *)
(***************************************************************************)
WorkerStart(j) ==
    /\ job[j].pc = "created"
    /\ Commit(run_job_start(World, j))
    /\ UNCHANGED <<mgr_jobs, jobs, handler, appVars, http>>

SynthOutcomes == {"ok", "synth_raises", "post_raises"}

WorkerSynthReturns(j) ==
    /\ job[j].pc = "synth"
    /\ \E outcome \in SynthOutcomes : Commit(run_job_after_synth(World, j, outcome))
    /\ UNCHANGED <<mgr_jobs, jobs, handler, appVars, http>>

WorkerResume(j) ==
    /\ job[j].pc = "sleep"
    /\ Commit(run_job_after_sleep(World, j))
    /\ UNCHANGED <<mgr_jobs, jobs, handler, appVars, http>>

\* The task of job j is cancelled from outside (the event loop shutting down).
\* A task cancelled before its first step never enters _run_job's try block.
TaskAbort(j) ==
    /\ job[j].pc \in {"created", "synth", "sleep"}
    /\ IF job[j].pc = "created"
       THEN /\ job' = [job EXCEPT ![j].pc = "never_ran"]
            /\ UNCHANGED <<queue, mgr_active_job_id>>
       ELSE Commit(run_job_cancelled(World, j))
    /\ UNCHANGED <<mgr_jobs, jobs, handler, appVars, http>>

(***************************************************************************)
(* app.py: speak and cancel.                                               *)
(***************************************************************************)
\* The texts and chunk limits speak requests carry.
SpeakTexts == { <<"a">>, <<"a", ".", " ", "b">>, <<" ">> }

\* The Authorization headers that requests carry, and the one the
\* requests of a client that holds the token carry.
TOKEN == <<"t", "k">>
BearerHeader == <<"B", "e", "a", "r", "e", "r", " ", "t", "k">>

NoRequest == [authorization |-> <<>>, status |-> "none", n |-> 0]

\* A route of the /v1 router: its dependency _require_http_auth runs
\* verify_http_request, and the handler runs only when that returns.  n
\* tells one 401 from the next.
Route(authorization, handler_runs) ==
    IF verify_http_request(authorization, engine_config.token)
    THEN /\ http' = [authorization |-> authorization, status |-> "handler", n |-> 0]
         /\ handler_runs
    ELSE /\ http' = [authorization |-> authorization, status |-> "401", n |-> 1 - http.n]
         /\ UNCHANGED served

\* GET /v1/health
GetHealth(authorization) == Route(authorization, UNCHANGED served)

\* status.supports_voice_clone.  A Pocket TTS model is taken to be one that
\* has voice cloning.
supports_voice_clone(synth) == synth.backend \in {"mock", "kyutai_pocket_tts"}

supports_voice_id(synth, dir, voice_id) ==
    IF synth.backend = "mock" THEN TRUE
    ELSE IF synth.backend = "qwen_custom_voice" THEN voice_id = DEFAULT_VOICE_ID
    ELSE voice_id = DEFAULT_VOICE_ID \/ dir[voice_id].prompt

\* Mutant: speak starts the job without looking at the voice.
speak_any_voice(voice_id, text, max_chars) ==
    /\ ~runtime_lock
    /\ FreeJobIds # {}
    /\ LET stripped == Strip(text)
           j == CHOOSE x \in FreeJobIds : \A y \in FreeJobIds : x <= y
       IN  IF stripped = <<>>
           THEN UNCHANGED served
           ELSE /\ start_job(jobs, j, voice_id, stripped, max_chars)
                /\ UNCHANGED <<jobs, queue, handler, appVars>>

\* POST /v1/speak.  voice_id is what SpeakRequest's validator lets through:
\* "0" or the text of a UUID.
speak(voice_id, text, max_chars) ==
    /\ ~runtime_lock
    /\ FreeJobIds # {}
    /\ LET stripped == Strip(text)
           j == CHOOSE x \in FreeJobIds : \A y \in FreeJobIds : x <= y
       IN  IF stripped = <<>>
           THEN UNCHANGED served
           ELSE IF ~voice_exists(voices_dir, voice_id)
           THEN UNCHANGED served
           ELSE IF ~supports_voice_id(synthesizer, voices_dir, voice_id)
           THEN UNCHANGED served
           ELSE /\ start_job(jobs, j, voice_id, stripped, max_chars)
                /\ UNCHANGED <<jobs, queue, handler, appVars>>

SpeakVoice(authorization, voice_id, text, max_chars) ==
    Route(authorization, speak(voice_id, text, max_chars))

\* A speak request that names no voice: voice_id defaults to "0".
Speak(authorization, text, max_chars) ==
    SpeakVoice(authorization, DEFAULT_VOICE_ID, text, max_chars)

\* Mutant: cancel_job flips the cancel signal.
cancel_job_flips(g, jobtab, job_id) ==
    IF job_id \notin mgr_jobs[g] THEN [result |-> FALSE, job |-> jobtab]
    ELSE [result |-> TRUE,
          job |-> [jobtab EXCEPT ![job_id].cancel_event = ~jobtab[job_id].cancel_event]]

\* cancel_job of manager g on the job table: what it returns and the job
\* table it leaves.
cancel_job(g, jobtab, job_id) ==
    IF job_id \notin mgr_jobs[g] THEN [result |-> FALSE, job |-> jobtab]
    ELSE [result |-> TRUE, job |-> [jobtab EXCEPT ![job_id].cancel_event = TRUE]]

\* POST /v1/cancel: 404 JOB_NOT_FOUND when cancel_job returns False.
cancel(job_id) ==
    /\ ~runtime_lock
    /\ job' = cancel_job(jobs, job, job_id).job
    /\ UNCHANGED <<mgr_jobs, mgr_active_job_id, jobs, queue, handler, appVars>>

Cancel(authorization, job_id) == Route(authorization, cancel(job_id))

(***************************************************************************)
(* app.py: stream_job.                                                     *)
(***************************************************************************)
\* JobManager.unsubscribe as the handler's finally block calls it: on the
\* manager that is current at that moment.
unsubscribe(jobtab, g, job_id, h) ==
    IF job_id \in mgr_jobs[g]
    THEN [jobtab EXCEPT ![job_id].subscribers = @ \ {h}]
    ELSE jobtab

\* The handler returns: its finally block unsubscribes and closes.  What the
\* closed handler keeps is what its client has: the frames sent and the code.
StreamClose(h, hrec, jobtab, code) ==
    /\ handler' = [handler EXCEPT ![h] =
           [hrec EXCEPT !.pc = "closed", !.close_code = code, !.history = <<>>, !.pos = 0]]
    /\ job' = unsubscribe(jobtab, jobs, hrec.job_id, h)

\* Mutant: the stream handler looks the job up before it verifies the
\* connection.
stream_job_subscribes_first(h, job_id, authorization, sec_websocket_protocol) ==
    /\ handler[h].pc = "idle"
    /\ LET v == verify_websocket(authorization, sec_websocket_protocol,
                                 engine_config.token)
           hr == [handler[h] EXCEPT !.authorization = authorization,
                                    !.sec_websocket_protocol = sec_websocket_protocol]
       IN  IF job_id \notin mgr_jobs[jobs]
           THEN /\ handler' = [handler EXCEPT ![h] =
                       [hr EXCEPT !.pc = "closed", !.close_code = 4404]]
                /\ UNCHANGED <<job, queue>>
           ELSE IF ~v.authorized
           THEN /\ handler' = [handler EXCEPT ![h] =
                       [hr EXCEPT !.pc = "closed", !.close_code = 4401]]
                /\ UNCHANGED <<job, queue>>
           ELSE /\ job' = [job EXCEPT ![job_id].subscribers = @ \cup {h}]
                /\ queue' = [queue EXCEPT ![h] = <<>>]
                /\ handler' = [handler EXCEPT ![h] =
                       [hr EXCEPT !.pc = "streaming", !.job_id = job_id,
                                  !.history = job[job_id].history,
                                  !.accepted = TRUE, !.subprotocol = v.subprotocol]]
    /\ UNCHANGED <<mgr_jobs, mgr_active_job_id, jobs, appVars, http>>

\* verify_websocket, then subscribe, then accept.
StreamConnect(h, job_id, authorization, sec_websocket_protocol) ==
    /\ handler[h].pc = "idle"
    /\ LET v == verify_websocket(authorization, sec_websocket_protocol,
                                 engine_config.token)
           hr == [handler[h] EXCEPT !.authorization = authorization,
                                    !.sec_websocket_protocol = sec_websocket_protocol]
       IN  IF ~v.authorized
           THEN /\ handler' = [handler EXCEPT ![h] =
                       [hr EXCEPT !.pc = "closed", !.close_code = 4401]]
                /\ UNCHANGED <<job, queue>>
           ELSE IF job_id \in mgr_jobs[jobs]
           THEN /\ job' = [job EXCEPT ![job_id].subscribers = @ \cup {h}]
                /\ queue' = [queue EXCEPT ![h] = <<>>]
                /\ handler' = [handler EXCEPT ![h] =
                       [hr EXCEPT !.pc = "streaming", !.job_id = job_id,
                                  !.history = job[job_id].history,
                                  !.accepted = TRUE, !.subprotocol = v.subprotocol]]
           ELSE /\ handler' = [handler EXCEPT ![h] =
                       [hr EXCEPT !.pc = "closed", !.close_code = 4404]]
                /\ UNCHANGED <<job, queue>>
    /\ UNCHANGED <<mgr_jobs, mgr_active_job_id, jobs, appVars, http>>

\* One send_json: of the next event of the snapshot, then of the queue.
StreamSend(h) ==
    /\ handler[h].pc = "streaming"
    /\ LET hr == handler[h] IN
       IF hr.pos < Len(hr.history)
       THEN LET event == hr.history[hr.pos + 1]
                hr1 == [hr EXCEPT !.pos = @ + 1, !.sent = Append(@, event)]
            IN  /\ IF event.type \in TERMINAL_EVENT_TYPES
                   THEN StreamClose(h, hr1, job, 1000)
                   ELSE handler' = [handler EXCEPT ![h] = hr1] /\ UNCHANGED job
                /\ UNCHANGED queue
       ELSE /\ queue[h] # <<>>
            /\ LET event == Head(queue[h])
                   hr1 == [hr EXCEPT !.sent = Append(@, event)]
               IN  /\ queue' = [queue EXCEPT ![h] = Tail(@)]
                   /\ IF event = Sentinel THEN StreamClose(h, hr, job, 1000)
                      ELSE IF event.type \in TERMINAL_EVENT_TYPES
                      THEN StreamClose(h, hr1, job, 1000)
                      ELSE handler' = [handler EXCEPT ![h] = hr1] /\ UNCHANGED job
    /\ UNCHANGED <<mgr_jobs, mgr_active_job_id, jobs, appVars, http>>

\* The client has gone: the next send_json raises WebSocketDisconnect.
StreamDisconnect(h) ==
    /\ handler[h].pc = "streaming"
    /\ LET hr == handler[h] IN
       IF hr.pos < Len(hr.history)
       THEN /\ StreamClose(h, [hr EXCEPT !.pos = @ + 1], job, 1006)
            /\ UNCHANGED queue
       ELSE /\ queue[h] # <<>>
            /\ Head(queue[h]) # Sentinel
            /\ queue' = [queue EXCEPT ![h] = Tail(@)]
            /\ StreamClose(h, hr, job, 1006)
    /\ UNCHANGED <<mgr_jobs, mgr_active_job_id, jobs, appVars, http>>

(***************************************************************************)
(* app.py: the runtime that create_app builds and activate_model replaces.  *)
(* An EngineConfig, a synthesizer, a VoiceStore and a JobManager carry the  *)
(* number of the activation that built them (0 for create_app).            *)
(***************************************************************************)
WarmupIds == 1..MaxWarmupTasks

DEFAULT_MODEL_ID == "qwen3-tts-12hz-0.6b-base"
DEFAULT_QWEN_MODEL_NAME == "Qwen/Qwen3-TTS-12Hz-0.6B-CustomVoice"
DEFAULT_KYUTAI_MODEL_NAME == "Verylicious/pocket-tts-ungated"

EngineConfig(g, synth_backend) ==
    [id |-> g, token |-> TOKEN, synth_backend |-> synth_backend,
     active_model_id |-> DEFAULT_MODEL_ID,
     qwen_model_name |-> DEFAULT_QWEN_MODEL_NAME,
     kyutai_model_name |-> DEFAULT_KYUTAI_MODEL_NAME]

\* create_synthesizer when the construction succeeds.
create_synthesizer(config) ==
    [id |-> config.id,
     backend |-> IF config.synth_backend = "qwen" THEN "qwen_custom_voice"
                 ELSE IF config.synth_backend = "kyutai" THEN "kyutai_pocket_tts"
                 ELSE "mock"]

\* MockSynthesizer's constructor cannot fail; loading a Qwen model can.
CreateSynthesizerOutcomes(config) ==
    IF config.synth_backend = "mock" THEN {"ok"} ELSE {"ok", "raises"}

resolve_runtime_model_id(config, backend) ==
    IF backend = "qwen_custom_voice" THEN config.qwen_model_name
    ELSE IF backend = "kyutai_pocket_tts" THEN config.kyutai_model_name
    ELSE config.active_model_id

VoiceStore(g, model_id) == [id |-> g, model_id |-> model_id]

\* _new_warmup_state.  A time or a duration is written as the number of the
\* warmup run that recorded it.
new_warmup_state ==
    [status |-> "not_started", runs |-> 0, last_reason |-> "None",
     last_started_at |-> None, last_completed_at |-> None, last_duration_ms |-> None,
     last_error |-> "None"]

NoWarmupTask == [pc |-> "none", reason |-> "None", state |-> 0, synthesizer |-> 0]

\* The closure variables of create_app and app.state, as one record.
Runtime ==
    [engine_config |-> engine_config, synthesizer |-> synthesizer,
     runtime_model_id |-> runtime_model_id, voice_store |-> voice_store,
     jobs |-> jobs, app_state |-> app_state]

SetRuntime(rt) ==
    /\ engine_config' = rt.engine_config
    /\ synthesizer' = rt.synthesizer
    /\ runtime_model_id' = rt.runtime_model_id
    /\ voice_store' = rt.voice_store
    /\ jobs' = rt.jobs
    /\ app_state' = rt.app_state

sync_runtime_state(rt) ==
    [rt EXCEPT !.app_state.config = rt.engine_config,
               !.app_state.synthesizer = rt.synthesizer,
               !.app_state.voice_store = rt.voice_store,
               !.app_state.jobs = rt.jobs,
               !.app_state.runtime_model_id = rt.runtime_model_id]

\* Mutant: the voice store of the previous model is kept.
activate_commit_keeps_voice_store(rt, next_config, next_synthesizer) ==
    sync_runtime_state(
        [rt EXCEPT !.engine_config = next_config,
                   !.synthesizer = next_synthesizer,
                   !.runtime_model_id =
                       resolve_runtime_model_id(next_config, next_synthesizer.backend),
                   !.jobs = next_synthesizer.id])

\* activate_model, lines 383-388: nothing suspends between these assignments.
activate_commit(rt, next_config, next_synthesizer) ==
    LET model_id == resolve_runtime_model_id(next_config, next_synthesizer.backend) IN
    sync_runtime_state(
        [rt EXCEPT !.engine_config = next_config,
                   !.synthesizer = next_synthesizer,
                   !.runtime_model_id = model_id,
                   !.voice_store = VoiceStore(next_config.id, model_id),
                   !.jobs = next_synthesizer.id])

(***************************************************************************)
(* app.py: warmup.                                                         *)
(***************************************************************************)
FreeWarmupIds == {t \in WarmupIds : warmup_tasks[t].pc = "none"}

\* Mutant: a warmup that ended ready is run again without force.
trigger_warmup_restarts_ready(as, tasks, states, force, reason) ==
    LET current_task == as.warmup_task IN
    IF current_task # None /\ tasks[current_task].pc # "done"
    THEN [app_state |-> as, warmup_tasks |-> tasks, accepted |-> FALSE,
          task |-> current_task]
    ELSE LET free == {t \in WarmupIds : tasks[t].pc = "none"}
             task == CHOOSE t \in free : \A u \in free : t <= u
         IN  [app_state |-> [as EXCEPT !.warmup_task = task],
              warmup_tasks |-> [tasks EXCEPT ![task] =
                  [pc |-> "created", reason |-> reason, state |-> 0, synthesizer |-> 0]],
              accepted |-> TRUE, task |-> task]

\* trigger_warmup up to its await: the new app.state and tasks, the answer,
\* and the task a waiting caller awaits (None when there is none).
trigger_warmup(as, tasks, states, force, reason) ==
    LET current_task == as.warmup_task IN
    IF current_task # None /\ tasks[current_task].pc # "done"
    THEN [app_state |-> as, warmup_tasks |-> tasks, accepted |-> FALSE,
          task |-> current_task]
    ELSE IF ~(force \/ states[as.warmup_state].status \in {"not_started", "error"})
    THEN [app_state |-> as, warmup_tasks |-> tasks, accepted |-> FALSE, task |-> None]
    ELSE LET free == {t \in WarmupIds : tasks[t].pc = "none"}
             task == CHOOSE t \in free : \A u \in free : t <= u
         IN  [app_state |-> [as EXCEPT !.warmup_task = task],
              warmup_tasks |-> [tasks EXCEPT ![task] =
                  [pc |-> "created", reason |-> reason, state |-> 0, synthesizer |-> 0]],
              accepted |-> TRUE, task |-> task]

\* The handlers that await a warmup task.
Waiters == {"activate_model", "warmup"}

\* The handlers whose awaited task has ended and that have not resumed yet:
\* the event loop queued their wake-up when the task ended.
PendingWakeups ==
    {w \in Waiters :
        \/ /\ w = "activate_model"
           /\ act.pc \in {"await_warmup", "await_trigger"}
           /\ warmup_tasks[act.awaiting].pc = "done"
        \/ /\ w = "warmup"
           /\ warm.pc = "await"
           /\ warmup_tasks[warm.awaiting].pc = "done"}

\* asyncio runs callbacks in the order they were queued.  The first step of
\* a task that create_task queues now comes after the wake-ups queued already
\* (start) and after the first steps of the tasks created before it.  The
\* step that follows to_thread is queued after the task's first step has run:
\* it comes after the wake-ups (finish) and the first steps (tasks) that were
\* queued by then.
NothingAhead == [start |-> {}, finish |-> {}, tasks |-> {}]

TaskCreated(r) ==
    IF r.accepted
    THEN [behind EXCEPT ![r.task] = [NothingAhead EXCEPT !.start = PendingWakeups]]
    ELSE behind

TaskStarted(t) ==
    [behind EXCEPT ![t] =
        [start |-> {}, finish |-> PendingWakeups,
         tasks |-> {u \in WarmupIds \ {t} : warmup_tasks[u].pc = "created"}]]

\* Handler w has resumed.
Resumed(w) ==
    [t \in WarmupIds |-> [behind[t] EXCEPT !.start = @ \ {w}, !.finish = @ \ {w}]]

\* _warmup_snapshot.
warmup_snapshot(as, states) == states[as.warmup_state]

IdleWarm(response) ==
    [pc |-> "idle", awaiting |-> None, accepted |-> FALSE, response |-> response]

NoWarmupResponse == [accepted |-> FALSE, warmup |-> new_warmup_state]

\* POST /v1/warmup from its entry to trigger_warmup's await, or to its answer
\* when trigger_warmup awaits nothing.
warmup(wait, force) ==
    /\ warm.pc = "idle"
    /\ FreeWarmupIds # {}
    /\ LET r == trigger_warmup(app_state, warmup_tasks, warmup_state, force, "api") IN
       /\ app_state' = r.app_state
       /\ warmup_tasks' = r.warmup_tasks
       /\ behind' = TaskCreated(r)
       /\ IF wait /\ r.task # None
          THEN warm' = [pc |-> "await", awaiting |-> r.task, accepted |-> r.accepted,
                        response |-> warm.response]
          ELSE warm' = IdleWarm([accepted |-> r.accepted,
                                 warmup |-> warmup_snapshot(r.app_state, warmup_state)])
    /\ UNCHANGED <<jobVars, jobs, streamVars, voiceVars, engine_config, synthesizer, voice_store,
                   runtime_model_id, warmup_state, activateVars>>

Warmup(authorization, wait, force) == Route(authorization, warmup(wait, force))

\* The awaited task has ended: the handler answers (line 433).
WarmupAwaited ==
    /\ warm.pc = "await"
    /\ warmup_tasks[warm.awaiting].pc = "done"
    /\ warm' = IdleWarm([accepted |-> warm.accepted,
                         warmup |-> warmup_snapshot(app_state, warmup_state)])
    /\ behind' = Resumed("warmup")
    /\ UNCHANGED <<jobVars, jobs, streamVars, voiceVars, runtimeVars, warmupVars, activateVars, http>>

\* _run_warmup from its start to to_thread: it takes the state dict and the
\* synthesizer that are current when it starts.
WarmupTaskStart(t) ==
    /\ warmup_tasks[t].pc = "created"
    /\ behind[t].start = {}
    /\ \A u \in WarmupIds : u < t => warmup_tasks[u].pc # "created"
    /\ behind' = TaskStarted(t)
    /\ warmup_tasks' = [warmup_tasks EXCEPT ![t].pc = "running",
                                            ![t].state = app_state.warmup_state,
                                            ![t].synthesizer = synthesizer.id]
    /\ warmup_state' = [warmup_state EXCEPT ![app_state.warmup_state] =
           [@ EXCEPT !.status = "running", !.last_reason = warmup_tasks[t].reason,
                     !.last_started_at = t, !.last_error = "None"]]
    /\ UNCHANGED <<jobVars, jobs, streamVars, voiceVars, runtimeVars, activateVars, warm, http>>

WarmupOutcomes == {"ok", "raises"}

\* _run_warmup from the return of to_thread to its end.
WarmupTaskFinish(t) ==
    /\ warmup_tasks[t].pc = "running"
    /\ behind[t].finish = {}
    /\ \A u \in behind[t].tasks : warmup_tasks[u].pc # "created"
    /\ \E outcome \in WarmupOutcomes :
          warmup_state' = [warmup_state EXCEPT ![warmup_tasks[t].state] =
              [@ EXCEPT !.status = IF outcome = "ok" THEN "ready" ELSE "error",
                        !.runs = @ + 1,
                        !.last_duration_ms = t,
                        !.last_completed_at = t,
                        !.last_error = IF outcome = "ok" THEN "None" ELSE "exc"]]
    /\ warmup_tasks' = [warmup_tasks EXCEPT ![t].pc = "done"]
    /\ app_state' = [app_state EXCEPT !.warmup_task = None]
    /\ UNCHANGED <<jobVars, jobs, streamVars, voiceVars, engine_config, synthesizer, voice_store,
                   runtime_model_id, activateVars, requestVars, http>>

(***************************************************************************)
(* app.py: activate_model.                                                 *)
(***************************************************************************)
\* "None" stands for a field the request leaves out.
ActivatePayloads ==
    [synth_backend : {"None", "mock", "qwen"}, warmup_wait : BOOLEAN,
     warmup_force : BOOLEAN]

NoPayload == [synth_backend |-> "None", warmup_wait |-> TRUE, warmup_force |-> TRUE]

\* What a request finds when it enters the handler.
RuntimeSnapshot ==
    [engine_config |-> engine_config, synthesizer |-> synthesizer,
     voice_store |-> voice_store, jobs |-> jobs, runtime_model_id |-> runtime_model_id,
     warmup |-> warmup_state[app_state.warmup_state]]

\* The request being served: where its handler stands, what it awaits, the
\* number of requests made, the last answer and what that request found.
IdleAct(n, resp, before, response) ==
    [pc |-> "idle", n |-> n, payload |-> NoPayload, next_config |-> EngineConfig(0, "mock"),
     awaiting |-> None, resp |-> resp, before |-> before, accepted |-> FALSE,
     response |-> response]

\* GET /v1/health: the model id and the runtime snapshot it reports.
get_health ==
    [active_model_id |-> runtime_model_id, backend |-> synthesizer.backend,
     warmup |-> warmup_snapshot(app_state, warmup_state)]

\* The body of an answer that is an error.
NoActivateResponse ==
    [reloaded |-> FALSE, warmup_accepted |-> FALSE, active_model_id |-> "None",
     backend |-> "None", warmup |-> new_warmup_state]

\* ActivateModelResponse of lines 398-403, from the runtime rt.
ActivateModelResponse(rt, states, warmup_accepted) ==
    [reloaded |-> TRUE, warmup_accepted |-> warmup_accepted,
     active_model_id |-> rt.runtime_model_id, backend |-> rt.synthesizer.backend,
     warmup |-> warmup_snapshot(rt.app_state, states)]

\* replace(engine_config, ...) of lines 344-372.
next_config_of(payload) ==
    EngineConfig(jobs + 1,
                 IF payload.synth_backend = "None" THEN engine_config.synth_backend
                 ELSE payload.synth_backend)

\* The handler from its entry to its first suspension.
activate_model_begin(payload) ==
    /\ ~runtime_lock
    /\ act.pc = "idle"
    /\ act.n < MaxActivations
    /\ IF has_active_job(jobs)
       THEN /\ act' = IdleAct(act.n + 1, "JOB_IN_PROGRESS", RuntimeSnapshot,
                               NoActivateResponse)
            /\ UNCHANGED runtime_lock
       ELSE /\ runtime_lock' = TRUE
            /\ LET current_warmup_task == app_state.warmup_task IN
               IF current_warmup_task # None
                    /\ warmup_tasks[current_warmup_task].pc # "done"
               THEN act' = [pc |-> "await_warmup", n |-> act.n + 1, payload |-> payload,
                            next_config |-> EngineConfig(0, "mock"),
                            awaiting |-> current_warmup_task, resp |-> "None",
                            before |-> RuntimeSnapshot, accepted |-> FALSE,
                            response |-> act.response]
               ELSE act' = [pc |-> "constructing", n |-> act.n + 1, payload |-> payload,
                            next_config |-> next_config_of(payload),
                            awaiting |-> None, resp |-> "None",
                            before |-> RuntimeSnapshot, accepted |-> FALSE,
                            response |-> act.response]
    /\ UNCHANGED <<jobVars, jobs, streamVars, voiceVars, runtimeVars, warmupVars, requestVars>>

ActivateBegin(authorization, payload) ==
    Route(authorization, activate_model_begin(payload))

\* The warmup that was running has ended: on to create_synthesizer.
ActivateWarmupAwaited ==
    /\ act.pc = "await_warmup"
    /\ warmup_tasks[act.awaiting].pc = "done"
    /\ act' = [act EXCEPT !.pc = "constructing", !.awaiting = None,
                          !.next_config = next_config_of(act.payload)]
    /\ behind' = Resumed("activate_model")
    /\ UNCHANGED <<jobVars, jobs, streamVars, voiceVars, runtimeVars, warmupVars, runtime_lock, warm,
                   http>>

\* Mutant: the configuration asked for stays in place when construction fails.
ActivateFailed_keeps_next_config ==
    /\ act' = IdleAct(act.n, "MODEL_NOT_READY", act.before, NoActivateResponse)
    /\ runtime_lock' = FALSE
    /\ engine_config' = act.next_config
    /\ UNCHANGED <<jobs, synthesizer, voice_store, runtime_model_id, app_state, warmupVars,
                   requestVars>>

\* create_synthesizer raised: 409 MODEL_NOT_READY (lines 376-381).
ActivateFailed ==
    /\ act' = IdleAct(act.n, "MODEL_NOT_READY", act.before, NoActivateResponse)
    /\ runtime_lock' = FALSE
    /\ UNCHANGED <<jobs, runtimeVars, warmupVars, requestVars>>

\* create_synthesizer returned: lines 383-396, up to trigger_warmup's await.
ActivateCommitted ==
    /\ FreeWarmupIds # {}
    /\ LET rt == activate_commit(Runtime, act.next_config,
                                 create_synthesizer(act.next_config))
           states == [warmup_state EXCEPT ![rt.jobs] = new_warmup_state]
           as == [rt.app_state EXCEPT !.warmup_state = rt.jobs, !.warmup_task = None]
           r == trigger_warmup(as, warmup_tasks, states, act.payload.warmup_force,
                               "model_activate")
           rt1 == [rt EXCEPT !.app_state = r.app_state]
       IN  /\ SetRuntime(rt1)
           /\ warmup_state' = states
           /\ warmup_tasks' = r.warmup_tasks
           /\ behind' = TaskCreated(r)
           /\ UNCHANGED warm
           /\ IF act.payload.warmup_wait /\ r.task # None
              THEN /\ act' = [act EXCEPT !.pc = "await_trigger", !.awaiting = r.task,
                                         !.accepted = r.accepted]
                   /\ UNCHANGED runtime_lock
              ELSE /\ act' = IdleAct(act.n, "reloaded", act.before,
                                     ActivateModelResponse(rt1, states, r.accepted))
                   /\ runtime_lock' = FALSE

\* to_thread(create_synthesizer) has returned or raised.
ActivateConstructed ==
    /\ act.pc = "constructing"
    /\ \E outcome \in CreateSynthesizerOutcomes(act.next_config) :
          IF outcome = "raises" THEN ActivateFailed ELSE ActivateCommitted
    /\ UNCHANGED <<jobVars, streamVars, voiceVars, http>>

\* The warmup that trigger_warmup started has ended: the request answers.
ActivateTriggerAwaited ==
    /\ act.pc = "await_trigger"
    /\ warmup_tasks[act.awaiting].pc = "done"
    /\ act' = IdleAct(act.n, "reloaded", act.before,
                      ActivateModelResponse(Runtime, warmup_state, act.accepted))
    /\ runtime_lock' = FALSE
    /\ behind' = Resumed("activate_model")
    /\ UNCHANGED <<jobVars, jobs, streamVars, voiceVars, runtimeVars, warmupVars, warm, http>>

(***************************************************************************)
(* app.py: the voice routes.  None of them takes runtime_lock.  A response *)
(* is its status and its error code, with what the handler leaves in the   *)
(* voices directory.                                                       *)
(***************************************************************************)
notVoices == <<jobVars, jobs, streamVars, runtimeVars, warmupVars, activateVars, requestVars>>

\* UUID(text) succeeds.
IsUuid(text) == Len(text) = 1 /\ text[1] \in VoiceUuids

\* GET /v1/voices: the response is list_voices of the state.
ListVoices(authorization) == Route(authorization, UNCHANGED served)

\* The clone request: where its handler stands, the display name it was
\* given, the voice create_voice returned, the synthesizer backend whose
\* prepare_cloned_voice it runs in a thread, and its last response.
IdleClone(display_name, voice, status, code) ==
    [pc |-> "idle", display_name |-> display_name, voice |-> voice, backend |-> "None",
     status |-> status, code |-> code]

NoClone == IdleClone(<<>>, <<>>, 0, "None")

\* _prepare_reference_audio_source in the directory of the new voice: a path
\* is checked, a base64 payload is decoded and written as reference_audio.wav.
prepare_reference_audio_source(ref_audio, dir, voice_id) ==
    IF ~ref_audio.valid THEN [raises |-> TRUE, dir |-> dir]
    ELSE IF ref_audio.source = "path" THEN [raises |-> FALSE, dir |-> dir]
    ELSE [raises |-> FALSE, dir |-> [dir EXCEPT ![voice_id].reference_audio = TRUE]]

\* The readings of datetime.now: the clock may read the same twice and may
\* step back, and never reads a time before 1970.
NowValues == {[second |-> 1, microsecond |-> 0], [second |-> 1, microsecond |-> 5]}

\* uuid4 returns a UUID it has not returned before: the first unused text.
uuid4 == CHOOSE voice_id \in VoiceUuids \ uuids :
            \A n \in 1..MaxVoices :
                UuidTexts[n] \in VoiceUuids \ uuids =>
                    \E m \in 1..n : UuidTexts[m] = voice_id

\* POST /v1/voices/clone up to its await.
clone_voice(payload) ==
    /\ clone.pc = "idle"
    /\ IF ~supports_voice_clone(synthesizer)
       THEN /\ clone' = IdleClone(payload.display_name, <<>>, 409, "MODEL_NOT_READY")
            /\ UNCHANGED <<voices_dir, uuids>>
       ELSE /\ VoiceUuids \ uuids # {}
            /\ \E created_at \in NowValues :
                  LET voice_id == uuid4
                      created == create_voice(
                          voice_store, voices_dir, voice_id, created_at,
                          Strip(payload.display_name), payload.language,
                          IF payload.ref_text # <<>> /\ Strip(payload.ref_text[1]) # <<>>
                          THEN <<Strip(payload.ref_text[1])>> ELSE <<>>,
                          payload.description)
                      source == prepare_reference_audio_source(payload.ref_audio,
                                                               created.dir, voice_id)
                  IN  /\ uuids' = uuids \cup {voice_id}
                      /\ IF source.raises
                         THEN /\ voices_dir' = delete_voice(source.dir, voice_id).dir
                              /\ clone' = IdleClone(payload.display_name, <<created.voice>>,
                                                    400, "INVALID_AUDIO")
                         ELSE /\ voices_dir' = source.dir
                              /\ clone' = [pc |-> "preparing",
                                           display_name |-> payload.display_name,
                                           voice |-> <<created.voice>>,
                                           backend |-> synthesizer.backend,
                                           status |-> 0, code |-> "None"]
    /\ UNCHANGED notVoices

CloneVoice(authorization, payload) == Route(authorization, clone_voice(payload))

\* MockSynthesizer.prepare_cloned_voice does nothing; Pocket TTS's writes the
\* prompt or raises; Qwen's raises.
PrepareOutcomes(backend) ==
    IF backend = "mock" THEN {"ok"}
    ELSE IF backend = "qwen_custom_voice" THEN {"raises"}
    ELSE {"ok", "raises"}

\* What prepare_cloned_voice leaves under voices/<uuid>: Pocket TTS makes the
\* directory if it is not there and, when it does not raise, writes
\* prompt.safetensors.
prepare_cloned_voice(backend, dir, voice_id, outcome) ==
    IF backend # "kyutai_pocket_tts" THEN dir
    ELSE [dir EXCEPT ![voice_id].exists = TRUE,
                     ![voice_id].prompt = (outcome = "ok")]

\* The thread of prepare_cloned_voice has ended and clone_voice goes on to
\* its response.
ClonePrepared ==
    /\ clone.pc = "preparing"
    /\ \E outcome \in PrepareOutcomes(clone.backend) :
          LET voice == clone.voice[1]
              prepared == prepare_cloned_voice(clone.backend, voices_dir,
                                               voice.voice_id, outcome)
          IN  IF outcome = "ok"
              THEN /\ voices_dir' = prepared
                   /\ clone' = IdleClone(clone.display_name, clone.voice, 200, "None")
              ELSE /\ voices_dir' = delete_voice(prepared, voice.voice_id).dir
                   /\ clone' = IdleClone(clone.display_name, clone.voice, 400,
                                         "VOICE_CLONE_FAILED")
    /\ UNCHANGED <<uuids, notVoices, http>>

Response(status, code, dir) == [status |-> status, code |-> code, dir |-> dir]

\* DELETE /v1/voices/{voice_id}
delete_voice_route(dir, voice_id) ==
    LET normalized_voice_id == Strip(voice_id) IN
    IF normalized_voice_id = <<DEFAULT_VOICE_ID>> THEN Response(403, "FORBIDDEN", dir)
    ELSE IF ~IsUuid(normalized_voice_id) THEN Response(404, "VOICE_NOT_FOUND", dir)
    ELSE LET removed == delete_voice(dir, normalized_voice_id[1]) IN
         IF ~removed.deleted THEN Response(404, "VOICE_NOT_FOUND", dir)
         ELSE Response(200, "None", removed.dir)

DeleteVoice(authorization, voice_id) ==
    Route(authorization,
          /\ voices_dir' = delete_voice_route(voices_dir, voice_id).dir
          /\ UNCHANGED <<uuids, clone, notVoices>>)

\* PATCH /v1/voices/{voice_id}.  payload.fields is model_fields_set: the
\* names the request body gave.
update_voice_route(dir, voice_id, payload) ==
    LET normalized_voice_id == Strip(voice_id) IN
    IF normalized_voice_id = <<DEFAULT_VOICE_ID>> THEN Response(403, "FORBIDDEN", dir)
    ELSE IF ~IsUuid(normalized_voice_id) THEN Response(404, "VOICE_NOT_FOUND", dir)
    ELSE LET result == update_voice(dir, normalized_voice_id[1], payload.display_name,
                                    payload.language, payload.description, payload.fields)
         IN  IF result.updated = <<>> THEN Response(404, "VOICE_NOT_FOUND", dir)
             ELSE Response(200, "None", result.dir)

UpdateVoice(authorization, voice_id, payload) ==
    Route(authorization,
          /\ voices_dir' = update_voice_route(voices_dir, voice_id, payload).dir
          /\ UNCHANGED <<uuids, clone, notVoices>>)

\* The requests the voice routes are given.
PathAudio == [source |-> "path", valid |-> TRUE]
MissingAudio == [source |-> "path", valid |-> FALSE]
Base64Audio == [source |-> "wav_base64", valid |-> TRUE]

ClonePayloads ==
    {[display_name |-> <<"a">>, ref_audio |-> PathAudio, ref_text |-> <<<<"h">>>>,
      language |-> "en", description |-> "None"],
     [display_name |-> <<" ">>, ref_audio |-> Base64Audio, ref_text |-> <<<<" ">>>>,
      language |-> "en", description |-> "None"],
     [display_name |-> <<"a">>, ref_audio |-> MissingAudio, ref_text |-> <<>>,
      language |-> "en", description |-> "None"]}

\* A field the body does not name has its default, None.
UpdatePayload(fields, display_name, language, description) ==
    [fields |-> fields, display_name |-> display_name, language |-> language,
     description |-> description]

UpdatePayloads ==
    {UpdatePayload({}, <<>>, "None", "None"),
     UpdatePayload({"display_name"}, <<<<"b">>>>, "None", "None"),
     UpdatePayload({"display_name"}, <<>>, "None", "None"),
     UpdatePayload({"language"}, <<>>, "fr", "None"),
     UpdatePayload({"description"}, <<>>, "None", "e")}

VoicePaths ==
    {<<DEFAULT_VOICE_ID>>, <<" ", DEFAULT_VOICE_ID>>, <<"x">>}
        \cup {<<voice_id>> : voice_id \in VoiceUuids}

\* Voice ids that are neither "0" nor the text of a UUID.
MalformedVoiceIds == {<<"x">>, <<UuidTexts[1], "x">>}

\* SpeakRequest.normalize_voice_id on a string: the voice id the handler is
\* given, or the ValueError that fails the validation of the request.
normalize_voice_id(value) ==
    LET normalized == Strip(value) IN
    IF normalized = <<>> \/ normalized = <<DEFAULT_VOICE_ID>>
    THEN [raises |-> FALSE, voice_id |-> DEFAULT_VOICE_ID]
    ELSE IF IsUuid(normalized) THEN [raises |-> FALSE, voice_id |-> normalized[1]]
    ELSE [raises |-> TRUE, voice_id |-> "None"]

\* The answer of POST /v1/speak to a body with this voice_id and text: a
\* body that fails validation is answered by _handle_validation_error, the
\* others by the handler.
speak_response(voice_id, text) ==
    LET validated == normalize_voice_id(voice_id) IN
    IF validated.raises THEN [status |-> 400, code |-> "INVALID_REQUEST"]
    ELSE IF Strip(text) = <<>> THEN [status |-> 400, code |-> "EMPTY_TEXT"]
    ELSE IF ~voice_exists(voices_dir, validated.voice_id)
    THEN [status |-> 404, code |-> "VOICE_NOT_FOUND"]
    ELSE IF ~supports_voice_id(synthesizer, voices_dir, validated.voice_id)
    THEN [status |-> 409, code |-> "MODEL_NOT_READY"]
    ELSE [status |-> 200, code |-> "None"]

\* POST /v1/speak with the voice_id of the body as it was sent.  The router's
\* dependency runs first; a body that fails validation never reaches speak.
SpeakRequest(authorization, voice_id, text, max_chars) ==
    LET validated == normalize_voice_id(voice_id) IN
    IF verify_http_request(authorization, engine_config.token) /\ validated.raises
    THEN /\ http' = [authorization |-> authorization, status |-> "400", n |-> 1 - http.n]
         /\ UNCHANGED served
    ELSE SpeakVoice(authorization, validated.voice_id, text, max_chars)

\* create_app with the configured backend, and the startup hook when
\* warmup_on_startup is set.
CreateApp(synth_backend, warmup_on_startup) ==
    LET config == EngineConfig(0, synth_backend)
        synth == create_synthesizer(config)
        model_id == resolve_runtime_model_id(config, synth.backend)
        store == VoiceStore(0, model_id)
        as == [config |-> config, synthesizer |-> synth, voice_store |-> store,
               jobs |-> 0, runtime_model_id |-> model_id, warmup_state |-> 0,
               warmup_task |-> None]
        states == [g \in Generations |-> new_warmup_state]
        tasks == [t \in WarmupIds |-> NoWarmupTask]
        r == trigger_warmup(as, tasks, states, FALSE, "startup")
    IN  /\ engine_config = config
        /\ synthesizer = synth
        /\ runtime_model_id = model_id
        /\ voice_store = store
        /\ warmup_state = states
        /\ app_state = IF warmup_on_startup THEN r.app_state ELSE as
        /\ warmup_tasks = IF warmup_on_startup THEN r.warmup_tasks ELSE tasks
        /\ runtime_lock = FALSE
        /\ act = IdleAct(0, "None", [engine_config |-> config, synthesizer |-> synth,
                                     voice_store |-> store, jobs |-> 0,
                                     runtime_model_id |-> model_id,
                                     warmup |-> new_warmup_state],
                         NoActivateResponse)
        /\ warm = IdleWarm(NoWarmupResponse)
        /\ behind = [t \in WarmupIds |-> NothingAhead]
        /\ voices_dir = [voice_id \in VoiceUuids |-> NoVoiceDir]
        /\ uuids = {}
        /\ clone = NoClone
        /\ http = NoRequest

\* The mock backend is configured.
InitApp(warmup_on_startup) == CreateApp("mock", warmup_on_startup)

(***************************************************************************)
(* Specifications.                                                         *)
(***************************************************************************)
Init ==
    /\ job = [j \in JobIds |-> NoJob]
    /\ mgr_jobs = [g \in Generations |-> {}]
    /\ mgr_active_job_id = [g \in Generations |-> None]
    /\ jobs = 0
    /\ queue = [h \in HandlerIds |-> <<>>]
    /\ handler = [h \in HandlerIds |-> IdleHandler]
    /\ InitApp(FALSE)

JobsStarted == Cardinality(JobIds \ FreeJobIds)

\* Jobs, cancellation and the workers, without stream handlers.
Next ==
    \/ \E text \in SpeakTexts : Speak(BearerHeader, text, SPEAK_MAX_CHARS_DEFAULT)
    \/ \E job_id \in JobIds : Cancel(BearerHeader, job_id)
    \/ \E j \in JobIds : WorkerStart(j)
    \/ \E j \in JobIds : WorkerSynthReturns(j)
    \/ \E j \in JobIds : WorkerResume(j)
    \/ \E j \in JobIds : TaskAbort(j)

Spec == Init /\ [][Next]_vars

(***************************************************************************)
(* The chunker behind JobManager.start_job: every text of up to MaxTextLen *)
(* characters over letters, spaces, tabs and full stops, and one text      *)
(* longer than the ceiling of 200 characters, with chunk limits at and     *)
(* around the sizes that make the chunker split.                            *)
(***************************************************************************)
ChunkAlphabet == {"a", " ", "\t", "."}

RECURSIVE TextsOfLen(_)
TextsOfLen(n) ==
    IF n = 0 THEN {<<>>}
    ELSE {Append(text, ch) : text \in TextsOfLen(n - 1), ch \in ChunkAlphabet}

\* A sentence without whitespace, one character longer than the ceiling.
LongText == [i \in 1..(FIRST_CHUNK_MAX_CHARS + 1) |-> "a"]

ChunkTexts == UNION {TextsOfLen(n) : n \in 0..MaxTextLen} \cup {LongText}

ChunkLimits == {1, 2, 3, 4, FIRST_CHUNK_MAX_CHARS, SPEAK_MAX_CHARS_DEFAULT}

\* JobManager.start_job called with a text and a chunk limit; the Job
\* Manager itself checks neither.
StartJob(text, max_chars) ==
    /\ FreeJobIds # {}
    /\ LET j == CHOOSE x \in FreeJobIds : \A y \in FreeJobIds : x <= y
       IN  start_job(jobs, j, DEFAULT_VOICE_ID, text, max_chars)
    /\ UNCHANGED <<jobs, queue, handler, appVars, http>>

NextChunk ==
    \/ /\ JobsStarted < MaxChunkJobs
       /\ \E text \in ChunkTexts, max_chars \in ChunkLimits : StartJob(text, max_chars)
    \/ \E j \in JobIds : WorkerStart(j)
    \/ \E j \in JobIds : WorkerSynthReturns(j)
    \/ \E j \in JobIds : WorkerResume(j)

SpecChunk == Init /\ [][NextChunk]_vars

StreamTexts == { <<"a", ".", " ", "b">> }

\* Stream handlers subscribing to the jobs of up to MaxStreamJobs requests.
NextStream ==
    \/ /\ JobsStarted < MaxStreamJobs
       /\ \E text \in StreamTexts : Speak(BearerHeader, text, SPEAK_MAX_CHARS_DEFAULT)
    \/ \E job_id \in JobIds : Cancel(BearerHeader, job_id)
    \/ \E j \in JobIds : WorkerStart(j)
    \/ \E j \in JobIds : WorkerSynthReturns(j)
    \/ \E j \in JobIds : WorkerResume(j)
    \/ \E h \in HandlerIds, job_id \in JobIds :
          StreamConnect(h, job_id, BearerHeader, <<>>)
    \/ \E h \in HandlerIds : StreamSend(h)
    \/ \E h \in HandlerIds : StreamDisconnect(h)

SpecStream == Init /\ [][NextStream]_vars

(***************************************************************************)
(* A reader that has stopped reading.  The queues have their real capacity, *)
(* so the run starts where the worker of a long job has published all but   *)
(* OverflowTail events of a queue's capacity: HandlerIds have read all of   *)
(* them, SlowReader none, and SlowReader reads OverflowTail events at most. *)
(***************************************************************************)
SlowReader == MaxHandlers + 1
OverflowReaders == HandlerIds \cup {SlowReader}

\* The number of chunks of the long job, and its text: that many sentences.
OverflowChunks == QUEUE_MAXSIZE + OverflowTail
OverflowText == [i \in 1..(2 * OverflowChunks) |-> IF i % 2 = 1 THEN "a" ELSE "."]

\* n rounds of _run_job's loop in which synthesis succeeds.  Each round's
\* world is bound as a value, its queues built, before the next round starts.
RECURSIVE PublishChunks(_, _, _)
PublishChunks(w, j, n) ==
    IF n <= 0 THEN w
    ELSE IF n = 1
    THEN CHOOSE w1 \in {run_job_after_sleep(run_job_after_synth(w, j, "ok"), j)} :
             w1.queue = w1.queue
    ELSE CHOOSE last \in {PublishChunks(mid, j, n - (n \div 2)) :
                              mid \in {PublishChunks(w, j, n \div 2)}} : TRUE

InitOverflow ==
    LET j == 1
        job0 == [x \in JobIds |->
                   IF x = j
                   THEN [NewJob(0, DEFAULT_VOICE_ID, OverflowText, SPEAK_MAX_CHARS_DEFAULT)
                            EXCEPT !.subscribers = OverflowReaders]
                   ELSE NoJob]
        w0 == [job |-> job0,
               queue |-> [h \in OverflowReaders |-> <<>>],
               active |-> [g \in Generations |-> IF g = 0 THEN j ELSE None]]
        w1 == PublishChunks(run_job_start(w0, j), j, QUEUE_MAXSIZE - OverflowTail)
    IN  /\ job = w1.job
        /\ mgr_jobs = [g \in Generations |-> IF g = 0 THEN {j} ELSE {}]
        /\ mgr_active_job_id = w1.active
        /\ jobs = 0
        /\ queue = [h \in OverflowReaders |->
                       IF h = SlowReader THEN w1.queue[h] ELSE <<>>]
        /\ handler = [h \in OverflowReaders |->
                         [IdleHandler EXCEPT
                             !.pc = "streaming", !.job_id = j,
                             !.sent = IF h = SlowReader THEN <<>> ELSE w1.job[j].history,
                             !.authorization = BearerHeader, !.accepted = TRUE]]
        /\ InitApp(FALSE)

NextOverflow ==
    \/ \E job_id \in JobIds : Cancel(BearerHeader, job_id)
    \/ \E j \in JobIds : WorkerSynthReturns(j)
    \/ \E j \in JobIds : WorkerResume(j)
    \/ \E h \in HandlerIds : StreamSend(h)
    \/ /\ Len(handler[SlowReader].sent) < OverflowTail
       /\ StreamSend(SlowReader)
    \/ \E h \in OverflowReaders : StreamDisconnect(h)

SpecOverflow == InitOverflow /\ [][NextOverflow]_vars

(***************************************************************************)
(* Activation and warmup beside the jobs.                                  *)
(***************************************************************************)
RuntimeTexts == { <<"a">> }

InitRuntime ==
    /\ job = [j \in JobIds |-> NoJob]
    /\ mgr_jobs = [g \in Generations |-> {}]
    /\ mgr_active_job_id = [g \in Generations |-> None]
    /\ jobs = 0
    /\ queue = [h \in HandlerIds |-> <<>>]
    /\ handler = [h \in HandlerIds |-> IdleHandler]
    /\ \E warmup_on_startup \in BOOLEAN : InitApp(warmup_on_startup)

WarmupTasksCreated == Cardinality(WarmupIds \ FreeWarmupIds)

NextRuntime ==
    \/ \E text \in RuntimeTexts : Speak(BearerHeader, text, SPEAK_MAX_CHARS_DEFAULT)
    \/ \E job_id \in JobIds : Cancel(BearerHeader, job_id)
    \/ \E j \in JobIds : WorkerStart(j)
    \/ \E j \in JobIds : WorkerSynthReturns(j)
    \/ \E j \in JobIds : WorkerResume(j)
    \* One POST /v1/warmup with wait=false; SpecWarmup has the waiting and
    \* the repeated requests.
    \/ /\ WarmupTasksCreated < MaxWarmups
       /\ warm.response = NoWarmupResponse
       /\ \E force \in BOOLEAN : Warmup(BearerHeader, FALSE, force)
    \/ \E t \in WarmupIds : WarmupTaskStart(t)
    \/ \E t \in WarmupIds : WarmupTaskFinish(t)
    \/ \E payload \in ActivatePayloads : ActivateBegin(BearerHeader, payload)
    \/ ActivateWarmupAwaited
    \/ /\ WarmupTasksCreated < MaxWarmups
       /\ ActivateConstructed
    \/ ActivateTriggerAwaited

SpecRuntime == InitRuntime /\ [][NextRuntime]_vars

(***************************************************************************)
(* Warmup requests beside an activation, without jobs.                     *)
(***************************************************************************)
NextWarmup ==
    \/ \E wait \in BOOLEAN, force \in BOOLEAN : Warmup(BearerHeader, wait, force)
    \/ WarmupAwaited
    \/ \E t \in WarmupIds : WarmupTaskStart(t)
    \/ \E t \in WarmupIds : WarmupTaskFinish(t)
    \/ \E payload \in ActivatePayloads : ActivateBegin(BearerHeader, payload)
    \/ ActivateWarmupAwaited
    \/ ActivateConstructed
    \/ ActivateTriggerAwaited

SpecWarmup == InitRuntime /\ [][NextWarmup]_vars

(***************************************************************************)
(* Requests with and without the token: speak, cancel and the stream with  *)
(* every header, warmup and activate_model (whose runs with the token are  *)
(* SpecWarmup's and SpecRuntime's) with the headers that do not carry it.  *)
(***************************************************************************)
\* Authorization headers: absent, "Bearer tk", "bearer  tk ", "Bearer tx"
\* and "Basic tk".
WrongTokenHeader == <<"B", "e", "a", "r", "e", "r", " ", "t", "x">>

\* Those that carry the token, and those that do not.
HeadersWithToken ==
    { BearerHeader, <<"b", "e", "a", "r", "e", "r", " ", " ", "t", "k", " ">> }

HeadersWithoutToken ==
    { <<>>, WrongTokenHeader, <<"B", "a", "s", "i", "c", " ", "t", "k">> }

HttpHeaders == HeadersWithToken \cup HeadersWithoutToken

\* The Authorization headers of WebSocket connections.
StreamHeaders == { <<>>, BearerHeader, WrongTokenHeader }

\* Sec-WebSocket-Protocol headers, each with the list of entries it offers.
SubprotocolOffers ==
    { [raw |-> <<>>, entries |-> <<>>],
      [raw |-> WS_AUTH_SUBPROTOCOL \o <<",", " ">> \o TOKEN,
       entries |-> <<WS_AUTH_SUBPROTOCOL, TOKEN>>],
      [raw |-> TOKEN \o <<",">> \o WS_AUTH_SUBPROTOCOL,
       entries |-> <<TOKEN, WS_AUTH_SUBPROTOCOL>>],
      [raw |-> WS_AUTH_SUBPROTOCOL \o <<",", "x", ",">> \o TOKEN,
       entries |-> <<WS_AUTH_SUBPROTOCOL, <<"x">>, TOKEN>>],
      [raw |-> <<"x", ",", " ">> \o WS_AUTH_SUBPROTOCOL \o <<" ", ",">> \o TOKEN,
       entries |-> <<<<"x">>, WS_AUTH_SUBPROTOCOL, TOKEN>>] }

AuthTexts == { <<"a">> }

NextAuth ==
    \/ /\ JobsStarted < MaxStreamJobs
       /\ \E authorization \in HttpHeaders, text \in AuthTexts :
              Speak(authorization, text, SPEAK_MAX_CHARS_DEFAULT)
    \/ \E authorization \in HttpHeaders, job_id \in JobIds : Cancel(authorization, job_id)
    \/ \E j \in JobIds : WorkerStart(j)
    \/ \E j \in JobIds : WorkerSynthReturns(j)
    \/ \E j \in JobIds : WorkerResume(j)
    \/ \E h \in HandlerIds, job_id \in JobIds, authorization \in StreamHeaders,
          offer \in SubprotocolOffers :
          StreamConnect(h, job_id, authorization, offer.raw)
    \/ \E h \in HandlerIds : StreamSend(h)
    \/ \E h \in HandlerIds : StreamDisconnect(h)
    \/ \E authorization \in HttpHeaders : GetHealth(authorization)
    \/ \E authorization \in HeadersWithoutToken, wait \in BOOLEAN, force \in BOOLEAN :
          Warmup(authorization, wait, force)
    \/ \E authorization \in HeadersWithoutToken, payload \in ActivatePayloads :
          ActivateBegin(authorization, payload)
    \/ \E authorization \in HttpHeaders : ListVoices(authorization)
    \/ \E authorization \in HeadersWithoutToken, payload \in ClonePayloads :
          CloneVoice(authorization, payload)
    \/ \E authorization \in HeadersWithoutToken, voice_id \in VoicePaths,
          payload \in UpdatePayloads : UpdateVoice(authorization, voice_id, payload)
    \/ \E authorization \in HeadersWithoutToken, voice_id \in VoicePaths :
          DeleteVoice(authorization, voice_id)

SpecAuth == Init /\ [][NextAuth]_vars

\* A model activation among speak requests and one stream handler: what the
\* handler's finally block finds when activate_model has replaced the Job
\* Manager that create_app's variable jobs names.
DetachPayloads ==
    {[synth_backend |-> "qwen", warmup_wait |-> FALSE, warmup_force |-> FALSE]}

NextDetach ==
    \/ \E text \in RuntimeTexts : Speak(BearerHeader, text, SPEAK_MAX_CHARS_DEFAULT)
    \/ \E job_id \in JobIds : Cancel(BearerHeader, job_id)
    \/ \E j \in JobIds : WorkerStart(j)
    \/ \E j \in JobIds : WorkerSynthReturns(j)
    \/ \E j \in JobIds : WorkerResume(j)
    \/ \E h \in HandlerIds, job_id \in JobIds :
          StreamConnect(h, job_id, BearerHeader, <<>>)
    \/ \E h \in HandlerIds : StreamSend(h)
    \/ \E h \in HandlerIds : StreamDisconnect(h)
    \/ \E payload \in DetachPayloads : ActivateBegin(BearerHeader, payload)
    \/ ActivateConstructed
    \/ \E t \in WarmupIds : WarmupTaskStart(t)
    \/ \E t \in WarmupIds : WarmupTaskFinish(t)

SpecDetach == Init /\ [][NextDetach]_vars

\* The voice routes among speak requests and a model activation.
VoicePayloads ==
    {[synth_backend |-> "qwen", warmup_wait |-> FALSE, warmup_force |-> FALSE]}

NextVoices ==
    \/ \E payload \in ClonePayloads : CloneVoice(BearerHeader, payload)
    \/ ClonePrepared
    \/ \E voice_id \in VoicePaths, payload \in UpdatePayloads :
          UpdateVoice(BearerHeader, voice_id, payload)
    \/ \E voice_id \in VoicePaths : DeleteVoice(BearerHeader, voice_id)
    \/ ListVoices(BearerHeader)
    \/ \E payload \in VoicePayloads : ActivateBegin(BearerHeader, payload)
    \/ ActivateConstructed
    \/ \E t \in WarmupIds : WarmupTaskStart(t)
    \/ \E t \in WarmupIds : WarmupTaskFinish(t)

SpecVoices == Init /\ [][NextVoices]_vars

\* Clone requests that may fail, under a backend whose prepare_cloned_voice
\* can raise, among deletions and speak requests that name a voice.
InitClone ==
    /\ job = [j \in JobIds |-> NoJob]
    /\ mgr_jobs = [g \in Generations |-> {}]
    /\ mgr_active_job_id = [g \in Generations |-> None]
    /\ jobs = 0
    /\ queue = [h \in HandlerIds |-> <<>>]
    /\ handler = [h \in HandlerIds |-> IdleHandler]
    /\ \E synth_backend \in {"mock", "kyutai"} : CreateApp(synth_backend, FALSE)

NextClone ==
    \/ \E payload \in ClonePayloads : CloneVoice(BearerHeader, payload)
    \/ ClonePrepared
    \/ \E voice_id \in VoicePaths : DeleteVoice(BearerHeader, voice_id)
    \/ ListVoices(BearerHeader)
    \/ \E voice_id \in {DEFAULT_VOICE_ID} \cup VoiceUuids, text \in RuntimeTexts :
          SpeakVoice(BearerHeader, voice_id, text, SPEAK_MAX_CHARS_DEFAULT)
    \/ \E j \in JobIds : WorkerStart(j)
    \/ \E j \in JobIds : WorkerSynthReturns(j)
    \/ \E j \in JobIds : WorkerResume(j)

SpecClone == InitClone /\ [][NextClone]_vars

\* Requests that name voices by well-formed and by malformed ids.
VoiceIdTexts == { <<"a">> }
VoiceIdPayloads == {UpdatePayload({"language"}, <<>>, "fr", "None")}
VoiceIdClones == {payload \in ClonePayloads : payload.ref_audio = PathAudio}

NextVoiceIds ==
    \/ \E payload \in VoiceIdClones : CloneVoice(BearerHeader, payload)
    \/ ClonePrepared
    \/ \E voice_id \in VoicePaths \cup MalformedVoiceIds, payload \in VoiceIdPayloads :
          UpdateVoice(BearerHeader, voice_id, payload)
    \/ \E voice_id \in VoicePaths \cup MalformedVoiceIds : DeleteVoice(BearerHeader, voice_id)
    \/ \E voice_id \in VoicePaths \cup MalformedVoiceIds \cup {<<" ">>}, text \in VoiceIdTexts :
          SpeakRequest(BearerHeader, voice_id, text, SPEAK_MAX_CHARS_DEFAULT)
    \/ \E j \in JobIds : WorkerStart(j)

SpecVoiceIds == Init /\ [][NextVoiceIds]_vars

\* Speak requests of every kind, accepted and rejected, while a voice is
\* being cloned on a backend that needs a prepared prompt, jobs run and a
\* stream handler subscribes.
RejectVoiceIds == VoicePaths \cup MalformedVoiceIds \cup {<<UuidTexts[1]>>, <<" ">>}
RejectTexts == { <<"a">>, <<" ">> }

InitReject ==
    /\ job = [j \in JobIds |-> NoJob]
    /\ mgr_jobs = [g \in Generations |-> {}]
    /\ mgr_active_job_id = [g \in Generations |-> None]
    /\ jobs = 0
    /\ queue = [h \in HandlerIds |-> <<>>]
    /\ handler = [h \in HandlerIds |-> IdleHandler]
    /\ CreateApp("kyutai", FALSE)

NextReject ==
    \/ \E payload \in VoiceIdClones : CloneVoice(BearerHeader, payload)
    \/ ClonePrepared
    \/ \E voice_id \in RejectVoiceIds, text \in RejectTexts :
          SpeakRequest(BearerHeader, voice_id, text, SPEAK_MAX_CHARS_DEFAULT)
    \/ \E j \in JobIds : WorkerStart(j)
    \/ \E j \in JobIds : WorkerSynthReturns(j)
    \/ \E h \in HandlerIds, job_id \in JobIds :
          StreamConnect(h, job_id, BearerHeader, <<>>)

SpecReject == InitReject /\ [][NextReject]_vars

\* Jobs and stream handlers under a fair scheduler.  The event loop runs
\* every worker that is ready, and every synthesize_chunk call returns or
\* raises; nothing is assumed about the clients, which may stop reading.
NextLive ==
    \/ \E text \in SpeakTexts : Speak(BearerHeader, text, SPEAK_MAX_CHARS_DEFAULT)
    \/ \E job_id \in JobIds : Cancel(BearerHeader, job_id)
    \/ \E j \in JobIds : WorkerStart(j)
    \/ \E j \in JobIds : WorkerSynthReturns(j)
    \/ \E j \in JobIds : WorkerResume(j)
    \/ \E h \in HandlerIds, job_id \in JobIds :
          StreamConnect(h, job_id, BearerHeader, <<>>)
    \/ \E h \in HandlerIds : StreamSend(h)
    \/ \E h \in HandlerIds : StreamDisconnect(h)

\* The worker of job j is weakly fair in each of its steps.  WorkerStart(j)
\* is enabled exactly when the task has been created and has not run, so its
\* weak fairness is written out with that state predicate in the place of
\* ENABLED <<WorkerStart(j)>>_vars.
WorkersAreFair ==
    \A j \in JobIds :
        /\ []<>(job[j].pc # "created") \/ []<><<WorkerStart(j)>>_vars
        /\ WF_vars(WorkerSynthReturns(j))
        /\ WF_vars(WorkerResume(j))

SpecLive == Init /\ [][NextLive]_vars /\ WorkersAreFair

\* The long job and its readers under a fair scheduler, with clients that
\* keep reading: every handler that has something to send sends it, and no
\* client goes away.
NextDrain ==
    \/ \E j \in JobIds : WorkerSynthReturns(j)
    \/ \E j \in JobIds : WorkerResume(j)
    \/ \E h \in OverflowReaders : StreamSend(h)

SpecDrain ==
    /\ InitOverflow
    /\ [][NextDrain]_vars
    /\ \A j \in JobIds : WF_vars(WorkerSynthReturns(j)) /\ WF_vars(WorkerResume(j))
    /\ \A h \in OverflowReaders : WF_vars(StreamSend(h))

\* Pruning.  The job map of a server that has served MAX_JOBS_KEPT - 2 speak
\* requests of one chunk each; every job ran to JOB_DONE, except that the
\* first one may still be waiting for its synthesize_chunk, superseded and
\* so canceled.  MaxPruneJobs more jobs are then started.
PruneJobIds == 1..(MAX_JOBS_KEPT - 2 + MaxPruneJobs)
PruneText == <<"a">>

\* The world in which start_job has just created job j.
JustStarted(j) ==
    [job |-> [x \in PruneJobIds |->
                IF x = j THEN NewJob(0, DEFAULT_VOICE_ID, PruneText, SPEAK_MAX_CHARS_DEFAULT)
                ELSE NoJob],
     queue |-> [h \in HandlerIds |-> <<>>],
     active |-> [g \in Generations |-> IF g = 0 THEN j ELSE None]]

\* Job j after _run_job ran to its end with no subscriber.
FinishedJob(j) ==
    run_job_after_sleep(run_job_after_synth(run_job_start(JustStarted(j), j), j, "ok"),
                        j).job[j]

\* Job j superseded while its first synthesize_chunk runs.
SupersededJob(j) == [run_job_start(JustStarted(j), j).job[j] EXCEPT !.cancel_event = TRUE]

InitPrune ==
    /\ \E first_is_running \in BOOLEAN :
          job = [j \in PruneJobIds |->
                   IF j > MAX_JOBS_KEPT - 2 THEN NoJob
                   ELSE IF j = 1 /\ first_is_running THEN SupersededJob(j)
                   ELSE FinishedJob(j)]
    /\ mgr_jobs = [g \in Generations |-> IF g = 0 THEN 1..(MAX_JOBS_KEPT - 2) ELSE {}]
    /\ mgr_active_job_id = [g \in Generations |-> None]
    /\ jobs = 0
    /\ queue = [h \in HandlerIds |-> <<>>]
    /\ handler = [h \in HandlerIds |-> IdleHandler]
    /\ InitApp(FALSE)

NextPrune ==
    \/ StartJob(PruneText, SPEAK_MAX_CHARS_DEFAULT)
    \/ \E j \in PruneJobIds : WorkerStart(j)
    \/ \E j \in PruneJobIds : WorkerSynthReturns(j)
    \/ \E j \in PruneJobIds : WorkerResume(j)

SpecPrune == InitPrune /\ [][NextPrune]_vars

(***************************************************************************)
(* Claims about the Job Manager and its workers.                           *)
(***************************************************************************)
Started(j) == job[j].pc # "none"

LastType(history) == history[Len(history)].type

IsTerminal(e) == e.type \in TERMINAL_EVENT_TYPES
IsAudio(e) == e.type = "AUDIO_CHUNK"

AudioEvents(history) == SelectSeq(history, IsAudio)
TerminalEvents(history) == SelectSeq(history, IsTerminal)

\* C1 as stated: at most one job has a done signal that has not fired.
C1_AtMostOneUnfiredDone ==
    Cardinality({j \in JobIds : Started(j) /\ ~job[j].done_event}) <= 1

\* C1 amended: at most one job has a done signal that has not fired and a
\* cancel signal that is not set, and such a job is the active job of its
\* manager; a superseded job keeps its done signal unfired until it finishes.
C1_AtMostOneLiveUncanceled ==
    /\ Cardinality({j \in JobIds :
            Started(j) /\ ~job[j].done_event /\ ~job[j].cancel_event}) <= 1
    /\ \A j \in JobIds :
            Started(j) /\ ~job[j].done_event /\ ~job[j].cancel_event
                => mgr_active_job_id[job[j].manager] = j

\* start_job has superseded a job that is still synthesizing.
C1_Witness ==
    \E j1, j2 \in JobIds :
        /\ j1 # j2
        /\ job[j1].pc = "synth" /\ job[j1].cancel_event /\ ~job[j1].done_event
        /\ Started(j2) /\ ~job[j2].done_event /\ ~job[j2].cancel_event

\* C2: once a job's done signal has fired its history holds exactly one
\* terminal event, as its last element, and nothing is appended afterwards.
C2_TerminalOnceAndLast ==
    [][\A j \in JobIds :
          /\ job'[j].done_event =>
                /\ job'[j].history # <<>>
                /\ IsTerminal(job'[j].history[Len(job'[j].history)])
                /\ Len(TerminalEvents(job'[j].history)) = 1
          /\ job[j].done_event => job'[j].history = job[j].history]_vars

\* One job ended by a task abort after a chunk, another by an exception.
C2_Witness ==
    \E j1, j2 \in JobIds :
        /\ job[j1].pc = "aborted" /\ job[j1].done_event
        /\ Len(AudioEvents(job[j1].history)) >= 1
        /\ job[j2].pc = "finished" /\ LastType(job[j2].history) = "JOB_ERROR"

\* C3: the k-th AUDIO_CHUNK of a job's history has seq k and the text_range
\* of the k-th chunk the chunker returns for the job's text.
C3_SeqAndRangeFollowChunker ==
    \A j \in JobIds :
        LET audio == AudioEvents(job[j].history)
            chunks == split_text_into_chunks(job[j].text, job[j].max_chars)
        IN  /\ Len(audio) <= Len(chunks)
            /\ \A k \in 1..Len(audio) :
                  /\ audio[k].seq = k
                  /\ audio[k].text_range =
                        [chunk_index |-> chunks[k].chunk_index,
                         start_char |-> chunks[k].start_char,
                         end_char |-> chunks[k].end_char]
                  /\ chunks[k].chunk_index = k - 1

\* A job has published the chunks of a two-sentence text.
C3_Witness ==
    \E j \in JobIds :
        /\ Len(AudioEvents(job[j].history)) = 2
        /\ LastType(job[j].history) = "JOB_DONE"

\* C6: once a job's cancel signal is set, no AUDIO_CHUNK is appended to its
\* history.
C6_NoAudioAfterCancel ==
    [][\A j \in JobIds :
          job[j].cancel_event =>
              Len(AudioEvents(job'[j].history)) = Len(AudioEvents(job[j].history))]_vars

\* The cancel signal is set while the second chunk is being synthesized.
C6_Witness ==
    \E j \in JobIds :
        /\ job[j].cancel_event /\ job[j].pc = "synth"
        /\ Len(AudioEvents(job[j].history)) = 1

\* C7 as stated: a job whose cancel signal is set before its terminal event is
\* published ends with JOB_CANCELED.
C7_CanceledEndsCanceled ==
    [][\A j \in JobIds :
          job[j].cancel_event /\ ~has_terminal_event(job[j])
              /\ has_terminal_event(job'[j])
            => LastType(job'[j].history) = "JOB_CANCELED"]_vars

\* C7 amended: such a job never ends with JOB_DONE; it ends with JOB_CANCELED
\* unless the synthesize_chunk call in flight raises, which ends it with
\* JOB_ERROR.
C7_CanceledNeverDone ==
    [][\A j \in JobIds :
          job[j].cancel_event /\ ~has_terminal_event(job[j])
              /\ has_terminal_event(job'[j])
            => \/ LastType(job'[j].history) = "JOB_CANCELED"
               \/ /\ LastType(job'[j].history) = "JOB_ERROR"
                  /\ job[j].pc = "synth"]_vars

\* A superseded job has finished with JOB_CANCELED while its successor runs.
C7_Witness ==
    \E j1, j2 \in JobIds :
        /\ j1 < j2 /\ Started(j2) /\ ~job[j2].done_event
        /\ job[j1].done_event /\ job[j1].cancel_event
        /\ LastType(job[j1].history) = "JOB_CANCELED"

(***************************************************************************)
(* Claims about stream subscribers.                                        *)
(***************************************************************************)
NotSentinel(e) == e # Sentinel

\* What handler h has still to send out of its snapshot.
SnapshotRest(h) == SubSeq(handler[h].history, handler[h].pos + 1, Len(handler[h].history))

\* C4: a subscriber that has not been dropped for overflow observes the job's
\* full event sequence, in publication order, with no duplicate and no gap:
\* what it has sent, then the rest of its snapshot, then the events waiting on
\* its queue, is the job's history; and a handler that returned normally has
\* sent the whole history, ending with the terminal event.
C4_SnapshotThenQueueIsHistory ==
    \A h \in HandlerIds :
        LET hr == handler[h] IN
        /\ (hr.pc = "streaming" /\ h \in job[hr.job_id].subscribers)
              => hr.sent \o SnapshotRest(h) \o SelectSeq(queue[h], NotSentinel)
                   = job[hr.job_id].history
        /\ (hr.pc = "closed" /\ hr.close_code = 1000)
              => /\ hr.sent = job[hr.job_id].history
                 /\ has_terminal_event(job[hr.job_id])

\* A handler that subscribed after the first chunk was published has sent its
\* two-event snapshot and then the second chunk from its queue, where the
\* terminal event waits.
C4_Witness ==
    \E h \in HandlerIds :
        /\ handler[h].pc = "streaming"
        /\ Len(handler[h].history) = 2
        /\ handler[h].pos = 2
        /\ Len(handler[h].sent) = 3
        /\ Len(queue[h]) = 2
        /\ has_terminal_event(job[handler[h].job_id])

\* The subscribers of job j whose queue holds QUEUE_MAXSIZE unread items.
FullSubscribers(j) == {h \in job[j].subscribers : Len(queue[h]) >= QUEUE_MAXSIZE}

\* C5: publish never waits on a subscriber.  A worker that is ready to run
\* can take its step whatever the queues hold; in the step that publishes an
\* event, the event is appended to the history and to the queue of every
\* subscriber whose queue is not full, a subscriber whose queue is full is
\* removed with its queue left as it is, and a removed subscriber's queue never
\* grows again.
C5_PublishNeverWaits ==
    [][/\ \A j \in JobIds :
            /\ job[j].pc = "synth" => ENABLED WorkerSynthReturns(j)
            /\ job[j].pc = "sleep" => ENABLED WorkerResume(j)
            /\ Len(job'[j].history) > Len(job[j].history) =>
                 LET event == job'[j].history[Len(job'[j].history)] IN
                 /\ job'[j].history = Append(job[j].history, event)
                 /\ \A h \in FullSubscribers(j) :
                        h \notin job'[j].subscribers /\ queue'[h] = queue[h]
                 /\ \A h \in job[j].subscribers \ FullSubscribers(j) :
                        \/ queue'[h] = Append(queue[h], event)
                        \/ /\ IsTerminal(event)
                           /\ queue'[h] = Append(Append(queue[h], event), Sentinel)
       /\ \A h \in DOMAIN handler :
            (handler[h].pc = "streaming" /\ h \notin job[handler[h].job_id].subscribers)
              => /\ h \notin job'[handler[h].job_id].subscribers
                 /\ Len(queue'[h]) <= Len(queue[h])
      ]_vars

\* The reader that never read was removed with QUEUE_MAXSIZE unread items,
\* and a reader that kept up has since been sent a later event.
C5_Witness ==
    /\ DOMAIN handler = OverflowReaders
    /\ handler[SlowReader].pc = "streaming"
    /\ SlowReader \notin job[1].subscribers
    /\ Len(queue[SlowReader]) = QUEUE_MAXSIZE
    /\ handler[SlowReader].sent = <<>>
    /\ \E h \in HandlerIds :
          /\ h \in job[1].subscribers
          /\ Len(handler[h].sent) > QUEUE_MAXSIZE + 1
          /\ handler[h].sent = job[1].history

(***************************************************************************)
(* Claims about activate_model.                                            *)
(***************************************************************************)
\* The worker of job j has been started and its done signal has not fired.
InFlight(j) == job[j].pc \in {"synth", "sleep"}

\* C8, as claimed: an activate_model request that arrives while some job is
\* in flight is answered 409 JOB_IN_PROGRESS and replaces nothing.
C8_ActivationRejectedWhileJobInFlight ==
    [][(act'.n = act.n + 1 /\ \E j \in JobIds : InFlight(j))
          => /\ act'.pc = "idle"
             /\ act'.resp = "JOB_IN_PROGRESS"
             /\ UNCHANGED <<jobs, runtimeVars>>]_vars

\* C9: wherever another handler can run, the config, the synthesizer, the
\* voice store, the Job Manager and the reported model id come from one
\* activation, in create_app's variables and in app.state alike.
C9_RuntimeMovesTogether ==
    /\ engine_config.id = jobs
    /\ synthesizer = create_synthesizer(engine_config)
    /\ runtime_model_id = resolve_runtime_model_id(engine_config, synthesizer.backend)
    /\ voice_store = VoiceStore(jobs, runtime_model_id)
    /\ app_state.config = engine_config
    /\ app_state.synthesizer = synthesizer
    /\ app_state.voice_store = voice_store
    /\ app_state.jobs = jobs
    /\ app_state.runtime_model_id = runtime_model_id

\* An activation to the Qwen backend has replaced the runtime and its handler
\* is suspended on the warmup it started; a job of the retired Job Manager
\* exists.
C9_Witness ==
    /\ jobs = 1
    /\ synthesizer.backend = "qwen_custom_voice"
    /\ act.pc = "await_trigger"
    /\ warmup_tasks[act.awaiting].pc = "running"
    /\ \E j \in JobIds : Started(j) /\ job[j].manager = 0

\* The step in which activate_model answers 409 MODEL_NOT_READY.
ActivationFails == act.pc = "constructing" /\ act'.pc = "idle" /\ act'.resp = "MODEL_NOT_READY"

\* C10, as claimed: when construction fails, the config, the synthesizer, the
\* voice store, the Job Manager, the model id and the warmup state are what
\* the request found.
C10_FailedActivationLeavesAllAsBefore ==
    [][ActivationFails => RuntimeSnapshot' = act.before]_vars

\* C10, amended: when construction fails, the config, the synthesizer, the
\* voice store, the Job Manager and the model id are what the request found,
\* and no step of a request that replaces nothing touches the warmup state or
\* the warmup tasks.
C10_FailedActivationReplacesNothing ==
    [][/\ ActivationFails =>
            [RuntimeSnapshot' EXCEPT !.warmup = act.before.warmup] = act.before
       /\ (act' # act /\ jobs' = jobs) =>
            UNCHANGED <<runtimeVars, warmupVars>>]_vars

\* A request that waited for the startup warmup has been answered 409
\* MODEL_NOT_READY: the runtime is create_app's, the warmup has run once.
C10_Witness ==
    /\ act.resp = "MODEL_NOT_READY"
    /\ act.pc = "idle"
    /\ jobs = 0
    /\ act.before.warmup.status = "not_started"
    /\ warmup_state[0].status = "ready"

(***************************************************************************)
(* Claims about warmup.                                                    *)
(***************************************************************************)
\* The step in which an activate_model request that asked to wait for the
\* warmup answers 200.
WaitedActivationAnswers ==
    /\ act.pc # "idle"
    /\ act.payload.warmup_wait
    /\ act'.pc = "idle"
    /\ act'.resp = "reloaded"

\* The model id of the runtime that the request being served asked for.
RequestedModelId ==
    resolve_runtime_model_id(act.next_config, create_synthesizer(act.next_config).backend)

\* C11: a successful activate_model with warmup_wait set answers after the
\* warmup it triggered has ended: reloaded is true, the model id is the new
\* one, the warmup status is ready or error with runs counted from the reset
\* state, and a health read that follows reports the new model id.
C11_WaitedActivationAnswersAfterWarmup ==
    [][WaitedActivationAnswers =>
          /\ act'.response.reloaded
          /\ act'.response.active_model_id = RequestedModelId
          /\ act'.response.warmup.status \in {"ready", "error"}
          /\ act'.response.warmup.runs >= 1
          /\ get_health'.active_model_id = RequestedModelId]_vars

\* The warmup runs that are executing: between the first step of _run_warmup
\* and its last.
RunningWarmups == {t \in WarmupIds : warmup_tasks[t].pc = "running"}

\* C12: at most one warmup run is executing at any instant, under any
\* interleaving of warmup requests with an activation.
C12_AtMostOneWarmupRuns == Cardinality(RunningWarmups) <= 1

\* No warmup run exists that has not ended.
NoWarmupRunning == \A t \in WarmupIds : warmup_tasks[t].pc \in {"none", "done"}

\* A step of POST /v1/warmup in which trigger_warmup creates no task.
WarmupRefused ==
    /\ warm.pc = "idle"
    /\ warm' # warm
    /\ warmup_tasks' = warmup_tasks

\* The answer that the handler of POST /v1/warmup gives or will give.
WarmupAccepted == IF warm.pc = "idle" THEN warm.response.accepted ELSE warm.accepted

\* C13: with no warmup running, trigger starts a run exactly when force is
\* set or the status is not_started or error; a trigger that starts none
\* answers accepted = false and leaves the warmup state as it was; a run
\* sets the status to running when it starts, and to ready or error with runs
\* one higher when it ends.
C13_TriggerStartsIffForcedOrNotReady ==
    [][/\ (NoWarmupRunning /\ FreeWarmupIds # {}) =>
            \A force \in BOOLEAN :
                LET r == trigger_warmup(app_state, warmup_tasks, warmup_state, force, "api")
                    status == warmup_snapshot(app_state, warmup_state).status
                IN  /\ r.accepted <=> (force \/ status \in {"not_started", "error"})
                    /\ r.accepted => /\ r.task \in FreeWarmupIds
                                     /\ r.warmup_tasks[r.task].pc = "created"
                                     /\ r.app_state.warmup_task = r.task
                    /\ ~r.accepted => /\ r.app_state = app_state
                                      /\ r.warmup_tasks = warmup_tasks
       /\ WarmupRefused =>
            /\ ~WarmupAccepted'
            /\ UNCHANGED <<warmup_state, app_state>>
       /\ \A t \in WarmupIds :
            (warmup_tasks[t].pc = "created" /\ warmup_tasks'[t].pc = "running") =>
                LET d == warmup_tasks'[t].state IN
                /\ d = app_state.warmup_state
                /\ warmup_state'[d].status = "running"
                /\ warmup_state'[d].runs = warmup_state[d].runs
       /\ \A t \in WarmupIds :
            (warmup_tasks[t].pc = "running" /\ warmup_tasks'[t].pc = "done") =>
                LET d == warmup_tasks[t].state IN
                /\ warmup_state'[d].status \in {"ready", "error"}
                /\ warmup_state'[d].runs = warmup_state[d].runs + 1
                /\ \A e \in Generations \ {d} : warmup_state'[e] = warmup_state[e]]_vars

\* A request without force has been refused after the only warmup run ended
\* ready: the state it reports is that run's.
C13_Witness ==
    /\ NoWarmupRunning
    /\ warm.pc = "idle"
    /\ ~warm.response.accepted
    /\ warm.response.warmup.status = "ready"
    /\ warm.response.warmup.runs = 1
    /\ warm.response.warmup = warmup_snapshot(app_state, warmup_state)

(***************************************************************************)
(* Claims about authorization.                                             *)
(***************************************************************************)
\* The entries that the Sec-WebSocket-Protocol header of handler h offers.
OfferedEntries(hr) ==
    (CHOOSE offer \in SubprotocolOffers : offer.raw = hr.sec_websocket_protocol).entries

\* The list holds auth.bearer.v1 immediately followed by the token.
HasTokenPair(entries) ==
    \E i \in 1..(Len(entries) - 1) :
        entries[i] = WS_AUTH_SUBPROTOCOL /\ entries[i + 1] = TOKEN

\* The connection of a stream handler carries the token.
StreamCarriesToken(hr) ==
    \/ hr.authorization \in HeadersWithToken
    \/ HasTokenPair(OfferedEntries(hr))

\* The step in which stream handler h takes its connection.
StreamConnects(h) == handler[h].pc = "idle" /\ handler'[h].pc # "idle"

\* C14: a request to a /v1 route whose Authorization header does not carry
\* the token is answered 401 and changes no state, and only a request that
\* carries it reaches a handler; a WebSocket connection that carries the
\* token neither in its Authorization header nor in its subprotocols is
\* closed with 4401 without being accepted, subscribed or sent an event.
C14_NothingWithoutToken ==
    [][/\ http' # http =>
            IF http'.authorization \in HeadersWithToken
            THEN http'.status = "handler"
            ELSE http'.status = "401" /\ UNCHANGED served
       /\ \A h \in HandlerIds :
            (StreamConnects(h) /\ ~StreamCarriesToken(handler'[h])) =>
                /\ handler'[h].pc = "closed"
                /\ handler'[h].close_code = 4401
                /\ ~handler'[h].accepted
                /\ handler'[h].sent = <<>>
                /\ UNCHANGED <<job, queue>>
       /\ \A h \in HandlerIds :
            (handler[h].pc # "idle" /\ ~StreamCarriesToken(handler[h])) =>
                /\ handler'[h] = handler[h]
                /\ \A j \in JobIds : h \notin job'[j].subscribers]_vars

\* A request with a wrong token has been answered 401 after a speak request
\* with the token started a job, and a connection that offered the token
\* before auth.bearer.v1 has been closed with 4401.
C14_Witness ==
    /\ http.status = "401"
    /\ http.authorization = WrongTokenHeader
    /\ \E j \in JobIds : Started(j)
    /\ \E h \in HandlerIds :
          /\ handler[h].close_code = 4401
          /\ OfferedEntries(handler[h]) = <<TOKEN, WS_AUTH_SUBPROTOCOL>>

\* C15: a connection without a valid Authorization header is authorized
\* exactly when its subprotocol list holds auth.bearer.v1 immediately
\* followed by the token, and is then accepted with auth.bearer.v1 as the
\* negotiated subprotocol; a connection authorized by its header is accepted
\* with no subprotocol.  (A connection to an unknown job is closed with 4404
\* whichever way it was authorized.)
C15_SubprotocolPairAuthorizes ==
    [][\A h \in HandlerIds :
          StreamConnects(h) =>
              LET hr == handler'[h]
                  authorized == hr.close_code # 4401
              IN  /\ hr.accepted <=> hr.pc = "streaming"
                  /\ hr.accepted <=> (authorized /\ hr.close_code # 4404)
                  /\ IF hr.authorization \in HeadersWithToken
                     THEN /\ authorized
                          /\ hr.subprotocol = <<>>
                     ELSE /\ authorized <=> HasTokenPair(OfferedEntries(hr))
                          /\ hr.accepted => hr.subprotocol = WS_AUTH_SUBPROTOCOL
                          /\ ~hr.accepted => hr.subprotocol = <<>>]_vars

\* A connection with a wrong token in its Authorization header that offered
\* x, auth.bearer.v1 and the token has been accepted with auth.bearer.v1 and
\* has been sent an event.
C15_Witness ==
    \E h \in HandlerIds :
        /\ handler[h].authorization = WrongTokenHeader
        /\ OfferedEntries(handler[h]) = <<<<"x">>, WS_AUTH_SUBPROTOCOL, TOKEN>>
        /\ handler[h].accepted
        /\ handler[h].subprotocol = WS_AUTH_SUBPROTOCOL
        /\ handler[h].sent # <<>>

\* The handler h leaves because its client has gone.
StreamDisconnects(h) ==
    /\ handler[h].pc = "streaming"
    /\ handler'[h].pc = "closed"
    /\ handler'[h].close_code = 1006

\* C16, as claimed: when a stream handler's client disconnects while the
\* job's worker is still running, the handler's queue leaves the job's
\* subscriber set and nothing else of any job changes: no cancel signal is
\* set and no history is touched.
C16_DisconnectOnlyUnsubscribes ==
    [][\A h \in HandlerIds :
          (StreamDisconnects(h) /\ job[handler[h].job_id].pc \in {"created", "synth", "sleep"})
              => /\ h \notin job'[handler[h].job_id].subscribers
                 /\ job' = [job EXCEPT ![handler[h].job_id].subscribers = @ \ {h}]]_vars

\* What GET /v1/voices returns.
Enumeration == list_voices(voice_store, voices_dir)

StoredVoices == {voice_id \in VoiceUuids : voices_dir[voice_id].meta # <<>>}

AddressesDefault(voice_id) == Strip(voice_id) = <<DEFAULT_VOICE_ID>>

\* C17: whatever clone, update, delete and activate requests have been
\* served, the enumeration has the default voice "0" as its first entry and
\* nowhere else, and a PATCH or a DELETE addressed to "0" is answered 403
\* FORBIDDEN and leaves the directory, and so the enumeration, as it is.
C17_DefaultVoiceFirstAndImmutable ==
    /\ Enumeration[1] = default_voice_summary(voice_store)
    /\ \A i \in 2..Len(Enumeration) : Enumeration[i].voice_id # DEFAULT_VOICE_ID
    /\ \A voice_id \in VoicePaths :
          AddressesDefault(voice_id) =>
              /\ delete_voice_route(voices_dir, voice_id)
                    = Response(403, "FORBIDDEN", voices_dir)
              /\ \A payload \in UpdatePayloads :
                    /\ update_voice_route(voices_dir, voice_id, payload)
                          = Response(403, "FORBIDDEN", voices_dir)
                    /\ list_voices(voice_store,
                                   update_voice_route(voices_dir, voice_id, payload).dir)
                          = Enumeration

\* Two cloned voices are stored, the one made later carrying the earlier
\* time, one of them renamed by an update, and a model has been activated
\* since.
C17_Witness ==
    /\ voice_store.id = 1
    /\ StoredVoices = VoiceUuids
    /\ Len(Enumeration) = 3
    /\ Enumeration[2].voice_id = UuidTexts[2]
    /\ Enumeration[3].voice_id = UuidTexts[1]
    /\ \E i \in 2..3 : Enumeration[i].display_name = <<"b">>
    /\ http.status = "handler"

\* A clone request is answered with an error after create_voice has run.
CloneFails ==
    /\ clone'.pc = "idle"
    /\ clone'.status = 400
    /\ clone.pc = "preparing" \/ uuids' # uuids

\* The voice the last clone request allocated.
ClonedVoiceId(request) == request.voice[1].voice_id

\* C18: when a clone request fails after its record was created, because its
\* reference audio is invalid or missing or because prepare_cloned_voice
\* raised, nothing is left under the allocated voice id when the error is
\* answered, no other voice has changed, the stored voices are those from
\* before the record was created, and no later speak request that names the
\* allocated voice id starts a job.
C18_FailedCloneIsRolledBack ==
    [][/\ CloneFails =>
            LET voice_id == ClonedVoiceId(clone') IN
            /\ voices_dir'[voice_id] = NoVoiceDir
            /\ ~voice_exists(voices_dir', voice_id)
            /\ \A other \in VoiceUuids \ {voice_id} : voices_dir'[other] = voices_dir[other]
            /\ StoredVoices' = StoredVoices \ {voice_id}
            /\ \A i \in 1..Len(Enumeration') : Enumeration'[i].voice_id # voice_id
       /\ (clone.pc = "idle" /\ clone.status = 400) =>
            /\ ~voice_exists(voices_dir, ClonedVoiceId(clone))
            /\ \A j \in JobIds :
                  (job[j].pc = "none" /\ job'[j].pc # "none")
                      => job'[j].voice_id # ClonedVoiceId(clone)]_vars

\* prepare_cloned_voice has raised for the second clone while the first
\* cloned voice is stored, and a speak request has started a job with that
\* first voice since.
C18_Witness ==
    /\ clone.pc = "idle"
    /\ clone.code = "VOICE_CLONE_FAILED"
    /\ ClonedVoiceId(clone) = UuidTexts[2]
    /\ StoredVoices = {UuidTexts[1]}
    /\ \E j \in JobIds : job[j].pc # "none" /\ job[j].voice_id = UuidTexts[1]

\* A clone request is answered 200, and no other request has deleted or
\* updated its record meanwhile: the record is the one the response returns.
CloneSucceeds ==
    /\ clone.pc = "preparing"
    /\ clone'.pc = "idle"
    /\ clone'.status = 200
    /\ voice_exists(voices_dir', ClonedVoiceId(clone'))
    /\ model_validate(voices_dir'[ClonedVoiceId(clone')].meta[1]) = clone'.voice[1]

\* C19, as claimed: after a successful clone request with display name d, an
\* accepted name of 1 to 80 characters, the enumeration holds exactly one
\* record with the voice id the clone returned, its display_name is exactly
\* d, and the voice id is a UUID.
C19_CloneRoundTrips ==
    [][CloneSucceeds =>
          LET voice_id == ClonedVoiceId(clone')
              found == {i \in 1..Len(Enumeration') : Enumeration'[i].voice_id = voice_id}
          IN  /\ Len(clone'.display_name) \in 1..80
              /\ IsUuid(<<voice_id>>)
              /\ Cardinality(found) = 1
              /\ \A i \in found : Enumeration'[i].display_name = clone'.display_name]_vars

\* What a step changes in a stored meta.json.
MetaOf(dir, voice_id) == dir[voice_id].meta[1]

UpdateFrame(old, new, fields) ==
    /\ new.voice_id = old.voice_id
    /\ new.created_at = old.created_at
    /\ new.tts_model_id = old.tts_model_id
    /\ new.ref_text = old.ref_text
    /\ "display_name" \notin fields => new.display_name = old.display_name
    /\ "language" \notin fields => new.language_hint = old.language_hint
    /\ "description" \notin fields => new.description = old.description

Chunked(j) == job[j].pc \notin {"none", "created"}

\* C21: the chunks the chunker returns are numbered 0, 1, 2, ... in order,
\* each has a non-empty trimmed text and start_char < end_char, each starts
\* at or after the end of the one before, and all offsets lie inside the
\* source text.
C21_ChunksOrderedAndInside ==
    \A j \in JobIds :
        LET chunks == job[j].chunks IN
        \A k \in 1..Len(chunks) :
            /\ chunks[k].chunk_index = k - 1
            /\ chunks[k].text # <<>>
            /\ Strip(chunks[k].text) = chunks[k].text
            /\ 0 <= chunks[k].start_char
            /\ chunks[k].start_char < chunks[k].end_char
            /\ chunks[k].end_char <= Len(job[j].text)
            /\ k > 1 => chunks[k].start_char >= chunks[k - 1].end_char

\* A text that starts with whitespace has been cut into a sentence and the
\* pieces of a hard split.
C21_Witness ==
    \E j \in JobIds :
        /\ Chunked(j)
        /\ Len(job[j].chunks) >= 3
        /\ IsSpace(job[j].text[1])
        /\ job[j].max_chars = 2
        /\ \E k \in 1..Len(job[j].chunks) : Len(job[j].chunks[k].text) = 1

\* The character limit split_text_into_chunks works with.
LimitOf(j) == Min(job[j].max_chars, FIRST_CHUNK_MAX_CHARS)

HasWhitespace(text) == \E i \in 1..Len(text) : IsSpace(text[i])

\* Every chunk's text has at most min(max_chars, 200) characters.
WithinLimit(j) == \A k \in 1..Len(job[j].chunks) : Len(job[j].chunks[k].text) <= LimitOf(j)

\* The chunk ends inside a word: it does not end a sentence, and the
\* character after it is no whitespace.
CutInsideWord(text, chunk) ==
    /\ chunk.end_char < Len(text)
    /\ ~IsSpace(text[chunk.end_char + 1])
    /\ text[chunk.end_char] \notin SENTENCE_BOUNDARY_CHARS

\* A chunk is cut at the exact limit only when there is no whitespace before
\* the limit to cut at.
SplitsAtWhitespace(j) ==
    \A k \in 1..Len(job[j].chunks) :
        CutInsideWord(job[j].text, job[j].chunks[k]) =>
            /\ Len(job[j].chunks[k].text) = LimitOf(j)
            /\ ~HasWhitespace(job[j].chunks[k].text)

\* ceil(a / b)
CeilDiv(a, b) == (a + b - 1) \div b

\* A sentence of length L without whitespace yields ceil(L / limit) chunks.
WhitespaceFreeCount(j) ==
    (~HasWhitespace(job[j].text) /\ Len(extract_sentence_spans(job[j].text)) = 1)
        => Len(job[j].chunks) = CeilDiv(Len(job[j].text), LimitOf(j))

\* A max_chars above 200 gives the chunks that 200 gives.
SameAboveCeiling(j) ==
    job[j].max_chars > FIRST_CHUNK_MAX_CHARS
        => job[j].chunks = split_text_into_chunks(job[j].text, FIRST_CHUNK_MAX_CHARS)

\* C22, as claimed: every chunk is within min(max_chars, 200) characters; a
\* sentence over the limit is cut at the last whitespace before each limit,
\* or at the exact limit when there is no whitespace before it, so that a
\* sentence of length L without whitespace yields ceil(L / limit) chunks;
\* and a max_chars above 200 gives the chunks that 200 gives.
C22_HardSplitAtLastWhitespace ==
    \A j \in JobIds :
        Chunked(j) =>
            /\ WithinLimit(j)
            /\ SplitsAtWhitespace(j)
            /\ WhitespaceFreeCount(j)
            /\ SameAboveCeiling(j)

NotSpace(ch) == ~IsSpace(ch)

\* The text with all whitespace deleted.
DeleteWhitespace(text) == SelectSeq(text, NotSpace)

\* " ".join of the texts of chunks[lo..hi].
RECURSIVE JoinChunkTexts(_, _, _)
JoinChunkTexts(chunks, lo, hi) ==
    IF lo > hi THEN <<>>
    ELSE IF lo = hi THEN chunks[lo].text
    ELSE LET mid == (lo + hi) \div 2
         IN  JoinChunkTexts(chunks, lo, mid) \o <<" ">> \o JoinChunkTexts(chunks, mid + 1, hi)

\* C23: the chunk texts joined with spaces, with all whitespace deleted, are
\* the source text with all whitespace deleted.
C23_NonWhitespacePreserved ==
    \A j \in JobIds :
        Chunked(j) =>
            DeleteWhitespace(JoinChunkTexts(job[j].chunks, 1, Len(job[j].chunks)))
                = DeleteWhitespace(job[j].text)

\* A text has been cut into a chunk with whitespace inside it and a chunk
\* that starts where the one before ends, with nothing between them.
C23_Witness ==
    \E j \in JobIds :
        /\ Chunked(j)
        /\ Len(job[j].chunks) >= 2
        /\ \E k \in 1..Len(job[j].chunks) : HasWhitespace(job[j].chunks[k].text)
        /\ \E k \in 1..Len(job[j].chunks) :
              /\ k > 1
              /\ job[j].chunks[k].start_char = job[j].chunks[k - 1].end_char

\* The values of max_sentences_per_chunk a caller passes.
SentencesPerChunk == {1, 2, 3}

\* The sentence span is a chunk by itself.
OwnChunk(text, chunks, span) ==
    \E k \in 1..Len(chunks) :
        /\ chunks[k].start_char = span[1]
        /\ chunks[k].end_char = span[2]
        /\ chunks[k].text = Strip(Slice(text, span[1], span[2]))

\* C24: no chunk reaches over more than one sentence span, every sentence
\* span whose trimmed length is within the limit is a chunk by itself, and
\* every max_sentences_per_chunk >= 1 gives the same chunks.
C24_OneSentencePerChunk ==
    \A j \in JobIds :
        Chunked(j) =>
            LET text == job[j].text
                chunks == job[j].chunks
                spans == extract_sentence_spans(text)
            IN  /\ \A k \in 1..Len(chunks) :
                      \E s \in 1..Len(spans) :
                          /\ spans[s][1] <= chunks[k].start_char
                          /\ chunks[k].end_char <= spans[s][2]
                /\ \A s \in 1..Len(spans) :
                      Len(Strip(Slice(text, spans[s][1], spans[s][2]))) <= LimitOf(j)
                          => OwnChunk(text, chunks, spans[s])
                /\ \A n \in SentencesPerChunk :
                      split_text_into_chunks3(text, job[j].max_chars, n) = chunks

\* Three sentences that together fit within the limit have become three
\* chunks.
C24_Witness ==
    \E j \in JobIds :
        /\ Chunked(j)
        /\ Len(extract_sentence_spans(job[j].text)) = 3
        /\ Len(job[j].text) <= LimitOf(j)
        /\ Len(job[j].chunks) = 3

\* C25: the text of every chunk is the slice of the source text between its
\* offsets, and the text_range of every AUDIO_CHUNK published locates the
\* text of the chunk that was synthesized for it.
C25_OffsetsLocateChunkText ==
    \A j \in JobIds :
        LET text == job[j].text
            chunks == job[j].chunks
            audio == AudioEvents(job[j].history)
        IN  /\ \A k \in 1..Len(chunks) :
                  chunks[k].text = Slice(text, chunks[k].start_char, chunks[k].end_char)
            /\ \A k \in 1..Len(audio) :
                  Slice(text, audio[k].text_range.start_char, audio[k].text_range.end_char)
                      = chunks[audio[k].text_range.chunk_index + 1].text

\* A job is done whose text has whitespace before its first chunk, between
\* two chunks and after the last.
C25_Witness ==
    \E j \in JobIds :
        LET chunks == job[j].chunks IN
        /\ Len(chunks) = 2
        /\ Len(AudioEvents(job[j].history)) = 2
        /\ LastType(job[j].history) = "JOB_DONE"
        /\ chunks[1].start_char > 0
        /\ chunks[2].start_char > chunks[1].end_char
        /\ chunks[2].end_char < Len(job[j].text)

(***************************************************************************)
(* Claims about requests that name a voice (under SpecVoiceIds).           *)
(***************************************************************************)
\* C26, as claimed: a request that names a malformed voice id is answered
\* 404 VOICE_NOT_FOUND by POST /v1/speak, PATCH and DELETE, and the speak
\* request starts no job and changes no voice.
C26_MalformedVoiceIdIsNotFound ==
    [][\A voice_id \in MalformedVoiceIds :
          /\ \A text \in VoiceIdTexts :
                speak_response(voice_id, text) = [status |-> 404, code |-> "VOICE_NOT_FOUND"]
          /\ \A payload \in VoiceIdPayloads :
                update_voice_route(voices_dir, voice_id, payload)
                    = Response(404, "VOICE_NOT_FOUND", voices_dir)
          /\ delete_voice_route(voices_dir, voice_id)
                = Response(404, "VOICE_NOT_FOUND", voices_dir)
          /\ (http' # http /\ http'.status = "400")
                => UNCHANGED <<jobVars, jobs, voiceVars>>]_vars

(***************************************************************************)
(* Claims about cancel_job (under Spec).                                   *)
(***************************************************************************)
\* C27: in every state the jobs reach, cancel_job on an id the Job Manager
\* does not know returns false and leaves every job as it is; on a known
\* job it returns true and sets the job's cancel signal and nothing else, a
\* second call leaves what the first left, and the history of a job whose
\* done signal has fired stays as it is with its terminal event.
C27_CancelIsIdempotent ==
    \A job_id \in JobIds :
        LET once == cancel_job(jobs, job, job_id)
            twice == cancel_job(jobs, once.job, job_id)
        IN  IF ~cancel_job_known(jobs, job_id)
            THEN ~once.result /\ once.job = job
            ELSE /\ once.result /\ twice.result
                 /\ twice.job = once.job
                 /\ once.job[job_id].cancel_event
                 /\ \A j \in JobIds \ {job_id} : once.job[j] = job[j]
                 /\ once.job[job_id].history = job[job_id].history
                 /\ once.job[job_id].done_event = job[job_id].done_event
                 /\ once.job[job_id].pc = job[job_id].pc

\* A job that ended with JOB_DONE has had its cancel signal set afterwards,
\* and the other job id is one the Job Manager does not know.
C27_Witness ==
    \E j1, j2 \in JobIds :
        /\ job[j1].done_event /\ job[j1].cancel_event
        /\ LastType(job[j1].history) = "JOB_DONE"
        /\ ~cancel_job_known(jobs, j2)

(***************************************************************************)
(* Claims about terminal events and failing synthesis.                     *)
(***************************************************************************)
\* C28: in the step that publishes a job's terminal event, every queue that
\* is in the job's subscriber set before the step either has the terminal
\* event appended behind everything it held, or held QUEUE_MAXSIZE items and
\* is dropped from the subscriber set with its contents left as they were; no
\* other queue changes.
C28_TerminalEventReachesSubscribers ==
    [][\A j \in JobIds :
         Len(TerminalEvents(job'[j].history)) > Len(TerminalEvents(job[j].history)) =>
            LET event == job'[j].history[Len(job'[j].history)] IN
            /\ IsTerminal(event)
            /\ job'[j].history = Append(job[j].history, event)
            /\ \A h \in job[j].subscribers :
                  IF Len(queue[h]) >= QUEUE_MAXSIZE
                  THEN h \notin job'[j].subscribers /\ queue'[h] = queue[h]
                  ELSE /\ Len(queue'[h]) > Len(queue[h])
                       /\ SubSeq(queue'[h], 1, Len(queue[h]) + 1) = Append(queue[h], event)
                       /\ SelectSeq(queue'[h], IsTerminal) = <<event>>
            /\ \A h \in DOMAIN queue \ job[j].subscribers : queue'[h] = queue[h]
      ]_vars

\* The job has ended; the reader that fell behind held QUEUE_MAXSIZE items up
\* to the last event before the terminal one and was dropped by the terminal
\* publish, and another subscriber's queue ends with the terminal event and
\* the sentinel.
C28_Witness ==
    /\ Started(1)
    /\ has_terminal_event(job[1])
    /\ Len(job[1].history) >= 2
    /\ SlowReader \notin job[1].subscribers
    /\ Len(queue[SlowReader]) = QUEUE_MAXSIZE
    /\ queue[SlowReader][QUEUE_MAXSIZE] = job[1].history[Len(job[1].history) - 1]
    /\ \E h \in HandlerIds :
          /\ h \in job[1].subscribers
          /\ Len(queue[h]) >= 2
          /\ queue[h][Len(queue[h])] = Sentinel
          /\ queue[h][Len(queue[h]) - 1] = job[1].history[Len(job[1].history)]

\* The outcomes of a synthesis step in which an exception is raised.
RaisingOutcomes == SynthOutcomes \ {"ok"}

\* C29: when synthesize_chunk or the post-processing raises for a chunk of a
\* job that is not canceled, the step publishes JOB_ERROR with code
\* INFERENCE_FAILED as the job's terminal event and no AUDIO_CHUNK, fires the
\* done signal, ends the worker and leaves the job's manager without it as
\* active job; and a job whose history ends with JOB_ERROR publishes nothing
\* more and never becomes an active job again.
C29_FailedSynthesisEndsJob ==
    [][\A j \in JobIds :
         /\ (job[j].pc = "synth" /\ ~job[j].cancel_event) =>
               \A outcome \in RaisingOutcomes :
                  LET w == run_job_after_synth(World, j, outcome)
                      g == job[j].manager
                  IN  /\ w.job[j].history = Append(job[j].history, ErrorEvent(j))
                      /\ ErrorEvent(j).code = "INFERENCE_FAILED"
                      /\ AudioEvents(w.job[j].history) = AudioEvents(job[j].history)
                      /\ w.job[j].done_event
                      /\ w.job[j].pc = "finished"
                      /\ w.active[g] # j
         /\ (Started(j) /\ job[j].history # <<>> /\ LastType(job[j].history) = "JOB_ERROR") =>
               /\ job'[j].history = job[j].history
               /\ job'[j].done_event
               /\ \A g \in Generations : mgr_active_job_id'[g] # j
      ]_vars

\* The second chunk of a job of several chunks failed: the history is the
\* start, one audio chunk and JOB_ERROR, the job was never canceled, its done
\* signal fired, and a later speak has started another job on its manager.
C29_Witness ==
    \E j \in JobIds :
        /\ Started(j)
        /\ Len(job[j].chunks) >= 2
        /\ Len(job[j].history) = 3
        /\ job[j].history[2].type = "AUDIO_CHUNK"
        /\ job[j].history[3] = ErrorEvent(j)
        /\ ~job[j].cancel_event
        /\ job[j].done_event
        /\ \E k \in JobIds :
              /\ k # j
              /\ Started(k)
              /\ job[k].manager = job[j].manager
              /\ mgr_active_job_id[job[j].manager] = k

(***************************************************************************)
(* Claims about the runtime lock.                                          *)
(***************************************************************************)
\* C30: the mutating routes never execute interleaved.  While activate_model
\* holds the runtime lock no step writes the voice store or moves a clone
\* request, and while clone_voice waits for prepare_cloned_voice no
\* activation begins or proceeds.
C30_RuntimeLockSerializesMutatingRoutes ==
    [][/\ runtime_lock => (voices_dir' = voices_dir /\ clone' = clone)
       /\ clone.pc = "preparing" => (act' = act /\ runtime_lock' = runtime_lock)
      ]_vars

(***************************************************************************)
(* Claims about stored display names.                                      *)
(***************************************************************************)
\* C31: every voice record in the store has a display name of 1 to 80
\* characters, whatever clone and update requests have been served.
C31_DisplayNameLength ==
    \A voice_id \in StoredVoices :
        Len(MetaOf(voices_dir, voice_id).display_name) \in 1..80

(***************************************************************************)
(* Claims about pruning.                                                   *)
(***************************************************************************)
\* The job that the step has started, as a set: empty when the step is not a
\* start_job.
JustCreated == {j \in DOMAIN job : job[j].pc = "none" /\ job'[j].pc = "created"}

\* C32: after a start_job the job map holds at most MAX_JOBS_KEPT entries or
\* no finished job; the jobs it removed were finished and older than every
\* finished job it kept, and it removed none unless the map was over the
\* limit; no other step removes a job; and the active job id of a manager,
\* when set, is in the manager's map.
C32_PruneKeepsLiveJobs ==
    [][/\ \A j \in JustCreated :
            LET g == jobs
                before == mgr_jobs[g] \cup {j}
                after == mgr_jobs'[g]
                removed == before \ after
            IN  /\ after \subseteq before
                /\ \/ Cardinality(after) <= MAX_JOBS_KEPT
                   \/ \A k \in after : ~job'[k].done_event
                /\ \A r \in removed :
                      /\ job[r].done_event
                      /\ \A k \in after : job'[k].done_event => r < k
                /\ removed # {} => Cardinality(before) > MAX_JOBS_KEPT
                /\ j \in after
       /\ JustCreated = {} => mgr_jobs' = mgr_jobs
       /\ \A g \in Generations :
            /\ mgr_active_job_id[g] # None => mgr_active_job_id[g] \in mgr_jobs[g]
            /\ mgr_active_job_id'[g] # None => mgr_active_job_id'[g] \in mgr_jobs'[g]
      ]_vars

\* The map was over the limit twice: the first job, superseded long ago and
\* still not done, is kept, the two oldest finished jobs are gone, and the
\* map holds MAX_JOBS_KEPT jobs with the newest one active.
C32_Witness ==
    /\ Cardinality(mgr_jobs[0]) = MAX_JOBS_KEPT
    /\ 1 \in mgr_jobs[0]
    /\ ~job[1].done_event
    /\ 2 \notin mgr_jobs[0]
    /\ 3 \notin mgr_jobs[0]
    /\ 4 \in mgr_jobs[0]
    /\ mgr_active_job_id[0] = MAX_JOBS_KEPT - 2 + MaxPruneJobs

(***************************************************************************)
(* Claims about the Job Manager lock.                                      *)
(***************************************************************************)
\* The step publishes an event of job j.
Publishes(j) == Len(job'[j].history) > Len(job[j].history)

\* The events the step publishes for job j, and the subscribers it removes.
Published(j) == SubSeq(job'[j].history, Len(job[j].history) + 1, Len(job'[j].history))
RemovedByPublish(j) == job[j].subscribers \ job'[j].subscribers

NewestJob(map) == CHOOSE j \in map : \A k \in map : k <= j

\* C34: in the step in which the worker of job j finishes, the active job id
\* of j's manager becomes None when it designated j and is left as it is
\* otherwise, and no other manager's is touched; and as long as the done
\* signal of the job a manager started last has not fired, that job is the
\* manager's active job, so has_active_job answers true.
C34_FinallyClearsOnlyOwnMarker ==
    [][/\ \A j \in DOMAIN job :
            (~job[j].done_event /\ job'[j].done_event) =>
                mgr_active_job_id' =
                    [mgr_active_job_id EXCEPT ![job[j].manager] = IF @ = j THEN None ELSE @]
       /\ \A g \in Generations :
            /\ (mgr_jobs[g] # {} /\ ~job[NewestJob(mgr_jobs[g])].done_event) =>
                  /\ mgr_active_job_id[g] = NewestJob(mgr_jobs[g])
                  /\ has_active_job(g)
            /\ (mgr_jobs'[g] # {} /\ ~job'[NewestJob(mgr_jobs'[g])].done_event) =>
                  mgr_active_job_id'[g] = NewestJob(mgr_jobs'[g])
      ]_vars

\* A job that was superseded while it ran has finished, canceled, and the job
\* that superseded it is still the active job, waiting for its synthesis.
C34_Witness ==
    \E j \in DOMAIN job :
        /\ j > MAX_JOBS_KEPT - 2
        /\ j + 1 \in DOMAIN job
        /\ job[j].done_event
        /\ job[j].cancel_event
        /\ Len(job[j].history) >= 2
        /\ job[j + 1].pc = "synth"
        /\ ~job[j + 1].cancel_event
        /\ mgr_active_job_id[0] = j + 1
        /\ has_active_job(0)

(***************************************************************************)
(* Claims about the shape of a history.                                    *)
(***************************************************************************)
\* C35: a history that is not empty begins with JOB_STARTED and has only
\* AUDIO_CHUNK events after it, except that its last event may be a terminal
\* one; and a history that ends with JOB_DONE is JOB_STARTED, then for each
\* chunk of the job's text, in the chunker's order, the AUDIO_CHUNK with that
\* chunk's index and offsets and the next sequence number, then JOB_DONE,
\* with at least one chunk when the text has a character that is not
\* whitespace.
C35_HistoryShape ==
    \A j \in JobIds :
        LET history == job[j].history
            n == Len(history)
            chunks == job[j].chunks
        IN  /\ n >= 1 => history[1].type = "JOB_STARTED"
            /\ \A i \in 2..n :
                  \/ history[i].type = "AUDIO_CHUNK"
                  \/ i = n /\ IsTerminal(history[i])
            /\ (n >= 1 /\ history[n].type = "JOB_DONE") =>
                  /\ n = Len(chunks) + 2
                  /\ \A i \in 1..Len(chunks) :
                        history[i + 1] = AudioChunkEvent(j, i, chunks[i])
                  /\ Strip(job[j].text) # <<>> => Len(chunks) >= 1

\* A job of two chunks is done with four events in its history, and another
\* job ended canceled after its first audio chunk.
C35_Witness ==
    /\ \E j \in JobIds :
          /\ Len(job[j].chunks) = 2
          /\ Len(job[j].history) = 4
          /\ LastType(job[j].history) = "JOB_DONE"
    /\ \E j \in JobIds :
          /\ Len(job[j].history) = 3
          /\ job[j].history[2].type = "AUDIO_CHUNK"
          /\ LastType(job[j].history) = "JOB_CANCELED"

(***************************************************************************)
(* Claims about termination.                                               *)
(***************************************************************************)
\* C36: every job that start_job has started eventually has its done signal
\* fired, whatever the clients do.
C36_EveryJobFiresDone == \A j \in JobIds : Started(j) ~> job[j].done_event

\* Both jobs are done, the first one superseded and canceled, while a
\* subscriber of the second has read nothing of what waits on its queue.
C36_Witness ==
    /\ job[1].done_event
    /\ job[1].cancel_event
    /\ job[2].done_event
    /\ LastType(job[2].history) \in {"JOB_DONE", "JOB_ERROR"}
    /\ \E h \in HandlerIds :
          /\ handler[h].pc = "streaming"
          /\ handler[h].job_id = 2
          /\ handler[h].sent = <<>>
          /\ Len(queue[h]) >= 2

\* C37: a stream handler that has subscribed to a job returns and closes its
\* connection once the job's done signal has fired, its client reading on.
C37_HandlerReturnsAfterDone ==
    \A h \in OverflowReaders :
        (handler[h].pc = "streaming" /\ job[handler[h].job_id].done_event)
            ~> (handler[h].pc = "closed")

(***************************************************************************)
(* Claims about the worker threads.                                        *)
(***************************************************************************)
\* The jobs whose synthesize_chunk call is running on a worker thread.
SynthesisCalls == {j \in JobIds : job[j].pc = "synth"}

\* C38: at most one call into the synthesizer, synthesize_chunk of a job or
\* warmup, is running on the worker threads.
C38_OneSynthesizerCallAtATime ==
    Cardinality(SynthesisCalls) + Cardinality(RunningWarmups) <= 1

(***************************************************************************)
(* Claims about rejected speak requests.                                   *)
(***************************************************************************)
\* C39: a step of POST /v1/speak whose answer is not 200 (INVALID_REQUEST,
\* EMPTY_TEXT, VOICE_NOT_FOUND or MODEL_NOT_READY) leaves the Job Manager as
\* it is: no job is created, no cancel signal is set, and no history, no
\* subscriber set and no queue changes.
C39_RejectedSpeakChangesNoJob ==
    [][\A voice_id \in RejectVoiceIds, text \in RejectTexts :
          (/\ speak_response(voice_id, text).status # 200
           /\ SpeakRequest(BearerHeader, voice_id, text, SPEAK_MAX_CHARS_DEFAULT))
             => UNCHANGED <<job, mgr_jobs, mgr_active_job_id, jobs, queue>>
      ]_vars

\* A job is active with a subscriber and an event in its history, a voice
\* is stored whose prompt is not prepared yet, so that a speak with it is
\* answered MODEL_NOT_READY, and the last request was a speak that failed
\* validation.
C39_Witness ==
    /\ has_active_job(jobs)
    /\ job[mgr_active_job_id[jobs]].history # <<>>
    /\ job[mgr_active_job_id[jobs]].subscribers # {}
    /\ clone.pc = "preparing"
    /\ speak_response(<<UuidTexts[1]>>, <<"a">>).code = "MODEL_NOT_READY"
    /\ speak_response(<<UuidTexts[2]>>, <<"a">>).code = "VOICE_NOT_FOUND"
    /\ speak_response(<<"0">>, <<" ">>).code = "EMPTY_TEXT"
    /\ http.status = "400"

(***************************************************************************)
(* Claims about what a connection without the token can learn.             *)
(***************************************************************************)
\* C40: the step that takes a WebSocket connection which carries the token
\* neither in its Authorization header nor in its subprotocols closes it with
\* 4401, accepts nothing, sends nothing and subscribes nothing, and is the
\* same step whichever job_id the connection asked for, known or unknown; a
\* connection closed with 4404 carried the token.
C40_UnknownJobHiddenWithoutToken ==
    [][\A h \in HandlerIds :
          StreamConnects(h) =>
              /\ ~StreamCarriesToken(handler'[h]) =>
                    /\ handler'[h].pc = "closed"
                    /\ handler'[h].close_code = 4401
                    /\ ~handler'[h].accepted
                    /\ handler'[h].sent = <<>>
                    /\ UNCHANGED <<job, queue>>
                    /\ \A job_id \in JobIds :
                          StreamConnect(h, job_id, handler'[h].authorization,
                                        handler'[h].sec_websocket_protocol)
              /\ handler'[h].close_code = 4404 => StreamCarriesToken(handler'[h])
      ]_vars

\* While one job id is known to the Job Manager and another is not, a
\* connection without the token has been closed with 4401.
C40_Witness ==
    /\ mgr_jobs[jobs] # {}
    /\ JobIds \ mgr_jobs[jobs] # {}
    /\ \E h \in HandlerIds :
          /\ handler[h].close_code = 4401
          /\ ~StreamCarriesToken(handler[h])
          /\ handler[h].authorization = WrongTokenHeader

====
